---- MODULE Spec2Model ----
(***************************************************************************)
(* ReachPoint: the campaign progress store (data/campaignProgress.ts),    *)
(* the queue navigator of the execution screen (screens/execution.tsx),    *)
(* and the record filter and identity deriver (data/campaignsData.ts)      *)
(* with the screens and report builders that call them.                    *)
(*                                                                         *)
(* AsyncStorage is a key-value map; a missing key reads as null.  A        *)
(* snapshot is written with JSON.stringify and read with JSON.parse: on    *)
(* the data of a CampaignProgress that round trip keeps every field that   *)
(* has a value and drops the fields whose value is undefined, so an        *)
(* optional field is modelled by one "unset" value for both "absent" and   *)
(* "undefined".                                                            *)
(***************************************************************************)
EXTENDS Integers, Sequences, FiniteSets, TLC

\* ---------------------------------------------------------------- bounds
MaxQueue == 2
MaxEntries == 2
MaxTime == 2
MaxRunQueue == 3
MaxRunEntries == 4
MaxRoster == 2
MaxFilters == 2
MaxCell == 3
MaxFollowed == 1

Ids == {"a", "b"}
CampaignIds == {"c1"}
Answers == {"Yes", "No"}

\* the contact ids of the queue of a run of the execution screen
RunIds == {"a", "b", "c"}

\* ------------------------------------------------------------ data model
CallOutcome == {"answered", "no_answer"}

\* outcome?: CallOutcome and surveyAnswer?: string when they are not set
Unset == "undefined"

\* lastCalledAt?: number when it is not set; Date.now() is at least 1
NoTime == 0

KEY_PREFIX == "connects.progress.v1:"

storageKey(campaignId) == <<KEY_PREFIX, campaignId>>

Range(s) == {s[i] : i \in 1..Len(s)}

\* every list of contact ids of at most MaxQueue entries, duplicates included
QueueLists == UNION {[1..n -> Ids] : n \in 0..MaxQueue}

RECURSIVE SumOver(_, _)
SumOver(f, S) ==
    IF S = {} THEN 0
    ELSE LET k == CHOOSE x \in S : TRUE IN f[k] + SumOver(f, S \ {k})

\* the number of history entries (call log and survey log) a snapshot holds
Entries(p) ==
    SumOver([k \in DOMAIN p.contacts |->
                Len(p.contacts[k].logs) + Len(p.contacts[k].surveyLogs)],
            DOMAIN p.contacts)

VARIABLES
    storage,    \* AsyncStorage: storage key -> persisted CampaignProgress
    now,        \* what Date.now() returns
    thrown,     \* the error the last call threw, if it threw one
    picked,     \* the call of pickNextId: its arguments and its result
    \* the execution screen (one instance, mounted on one campaign)
    queueIds,       \* useMemo: the ids of the filtered students, in order
    progress,       \* useState<CampaignProgress | null>
    mode,           \* useState: 'idle' | 'running' | 'summary' | 'missed'
    currentId,      \* useState<string | undefined>: the presented contact
    passStrategy,   \* useState: 'unattempted' | 'missed'
    inflight,       \* the call of advance that has not resolved yet
    presented,      \* the contacts presented since the pass began, in order
    finished,       \* onDone was called
    passStart,      \* what the pass in progress found when it began
    \* the roster and the campaign made from it
    students,       \* students.json: the ordered roster
    filters,        \* createCampaigns: the FilterSet the user has built
    campaign,       \* the saved Campaign: its filters and studentIds
    derived,        \* the last derivation of the ids: by whom, and the ids
    \* the exports
    exported,       \* the last export or report: by whom, of what, the result
    \* the store call followed step by step
    call            \* the call in flight: its stage, what it holds, its writes

\* the state of the execution screen
screen == <<queueIds, progress, mode, currentId, passStrategy, inflight,
            presented, finished, passStart>>

\* the roster, the filter editor and the campaign
roster == <<students, filters, campaign, derived>>

vars == <<storage, now, thrown, picked, screen, roster, exported, call>>

\* what the calls on the store leave alone
others == <<picked, screen, roster, exported, call>>

\* { contactId: id, attempts: 0, logs: [], surveyLogs: [] }
ZeroContact(id) ==
    [contactId |-> id, attempts |-> 0, outcome |-> Unset,
     lastCalledAt |-> NoTime, logs |-> <<>>,
     surveyAnswer |-> Unset, surveyLogs |-> <<>>]

\* contacts[id] = c
Put(contacts, id, c) ==
    [k \in DOMAIN contacts \cup {id} |-> IF k = id THEN c ELSE contacts[k]]

\* p.contacts[contactId] ?? { contactId, attempts: 0, logs: [], surveyLogs: [] }
FetchOrCreate(p, contactId) ==
    IF contactId \in DOMAIN p.contacts THEN p.contacts[contactId]
    ELSE ZeroContact(contactId)

\* the scan that recomputes made / answered / missed
RecomputeTotals(contacts) ==
    [made     |-> Cardinality({k \in DOMAIN contacts : contacts[k].outcome # Unset}),
     answered |-> Cardinality({k \in DOMAIN contacts : contacts[k].outcome = "answered"}),
     missed   |-> Cardinality({k \in DOMAIN contacts : contacts[k].outcome = "no_answer"})]

\* ------------------------------------------------- loadOrInitProgress
\* one turn of the backfill loop; the else branch (logs ?? [], surveyLogs ?? [])
\* changes nothing because every contact the store creates has both arrays
BackfillStep_AlwaysCounts(p, id) ==
    IF id \notin DOMAIN p.contacts
    THEN [p EXCEPT !.contacts = Put(p.contacts, id, ZeroContact(id)),
                   !.totals.total = @ + 1]
    ELSE [p EXCEPT !.totals.total = @ + 1]

BackfillStep_ResetsExisting(p, id) ==
    IF id \notin DOMAIN p.contacts
    THEN [p EXCEPT !.contacts = Put(p.contacts, id, ZeroContact(id)),
                   !.totals.total = @ + 1]
    ELSE [p EXCEPT !.contacts = Put(p.contacts, id, ZeroContact(id))]

BackfillStep(p, id) ==
    IF id \notin DOMAIN p.contacts
    THEN [p EXCEPT !.contacts = Put(p.contacts, id, ZeroContact(id)),
                   !.totals.total = @ + 1]
    ELSE p

RECURSIVE Backfill(_, _)
Backfill(p, contactIds) ==
    IF contactIds = <<>> THEN p
    ELSE Backfill(BackfillStep(p, Head(contactIds)), Tail(contactIds))

Fresh(campaignId, contactIds) ==
    [campaignId |-> campaignId,
     totals |-> [total |-> Len(contactIds), made |-> 0, answered |-> 0, missed |-> 0],
     contacts |-> [id \in Range(contactIds) |-> ZeroContact(id)],
     completed |-> FALSE]

\* the snapshot loadOrInitProgress persists and returns, from the store st
loadOrInitProgress(st, campaignId, contactIds) ==
    IF storageKey(campaignId) \in DOMAIN st
    THEN Backfill(st[storageKey(campaignId)], contactIds)
    ELSE Fresh(campaignId, contactIds)

\* AsyncStorage.setItem(key, JSON.stringify(p))
setItem(st, key, p) ==
    [k \in DOMAIN st \cup {key} |-> IF k = key THEN p ELSE st[k]]

\* AsyncStorage.removeItem(key)
removeItem(st, key) == [k \in DOMAIN st \ {key} |-> st[k]]

\* ------------------------------------------------------ recordOutcome
recordOutcomeOn_MarksCompleted(p, contactId, outcome, at) ==
    LET c0 == FetchOrCreate(p, contactId)
        c  == [c0 EXCEPT !.attempts = @ + 1,
                         !.lastCalledAt = at,
                         !.outcome = outcome,
                         !.logs = Append(@, [at |-> at, outcome |-> outcome])]
        contacts == Put(p.contacts, contactId, c)
        t == RecomputeTotals(contacts)
    IN [p EXCEPT !.contacts = contacts,
                 !.totals.made = t.made,
                 !.totals.answered = t.answered,
                 !.totals.missed = t.missed,
                 !.completed = (t.answered = Cardinality(DOMAIN contacts))]

recordOutcomeOn_NoLog(p, contactId, outcome, at) ==
    LET c0 == FetchOrCreate(p, contactId)
        c  == [c0 EXCEPT !.attempts = @ + 1,
                         !.lastCalledAt = at,
                         !.outcome = outcome]
        contacts == Put(p.contacts, contactId, c)
        t == RecomputeTotals(contacts)
    IN [p EXCEPT !.contacts = contacts,
                 !.totals.made = t.made,
                 !.totals.answered = t.answered,
                 !.totals.missed = t.missed]

recordOutcomeOn_NoAttempt(p, contactId, outcome, at) ==
    LET c0 == FetchOrCreate(p, contactId)
        c  == [c0 EXCEPT !.lastCalledAt = at,
                         !.outcome = outcome,
                         !.logs = Append(@, [at |-> at, outcome |-> outcome])]
        contacts == Put(p.contacts, contactId, c)
        t == RecomputeTotals(contacts)
    IN [p EXCEPT !.contacts = contacts,
                 !.totals.made = t.made,
                 !.totals.answered = t.answered,
                 !.totals.missed = t.missed]

recordOutcomeOn(p, contactId, outcome, at) ==
    LET c0 == FetchOrCreate(p, contactId)
        c  == [c0 EXCEPT !.attempts = @ + 1,
                         !.lastCalledAt = at,
                         !.outcome = outcome,
                         !.logs = Append(@, [at |-> at, outcome |-> outcome])]
        contacts == Put(p.contacts, contactId, c)
        t == RecomputeTotals(contacts)
    IN [p EXCEPT !.contacts = contacts,
                 !.totals.made = t.made,
                 !.totals.answered = t.answered,
                 !.totals.missed = t.missed]

\* ------------------------------------------------ clearMissedOutcomes
clearMissedOutcomesOn_ResetsAttempts(p) ==
    LET contacts == [k \in DOMAIN p.contacts |->
                        IF p.contacts[k].outcome = "no_answer"
                        THEN [p.contacts[k] EXCEPT !.outcome = Unset, !.attempts = 0]
                        ELSE p.contacts[k]]
        t == RecomputeTotals(contacts)
    IN [p EXCEPT !.contacts = contacts,
                 !.totals.made = t.made,
                 !.totals.answered = t.answered,
                 !.totals.missed = t.missed]

clearMissedOutcomesOn_StaleTotals(p) ==
    [p EXCEPT !.contacts = [k \in DOMAIN p.contacts |->
                               IF p.contacts[k].outcome = "no_answer"
                               THEN [p.contacts[k] EXCEPT !.outcome = Unset]
                               ELSE p.contacts[k]]]

clearMissedOutcomesOn_ClearsAll(p) ==
    LET contacts == [k \in DOMAIN p.contacts |-> [p.contacts[k] EXCEPT !.outcome = Unset]]
        t == RecomputeTotals(contacts)
    IN [p EXCEPT !.contacts = contacts,
                 !.totals.made = t.made,
                 !.totals.answered = t.answered,
                 !.totals.missed = t.missed]

clearMissedOutcomesOn(p) ==
    LET contacts == [k \in DOMAIN p.contacts |->
                        IF p.contacts[k].outcome = "no_answer"
                        THEN [p.contacts[k] EXCEPT !.outcome = Unset]
                        ELSE p.contacts[k]]
        t == RecomputeTotals(contacts)
    IN [p EXCEPT !.contacts = contacts,
                 !.totals.made = t.made,
                 !.totals.answered = t.answered,
                 !.totals.missed = t.missed]

\* ---------------------------------------------- recordSurveyResponse
recordSurveyResponseOn_CountsAsCall(p, contactId, answer, at) ==
    LET c0 == FetchOrCreate(p, contactId)
        c  == [c0 EXCEPT !.attempts = @ + 1,
                         !.surveyAnswer = answer,
                         !.surveyLogs = Append(@, [at |-> at, answer |-> answer])]
    IN [p EXCEPT !.contacts = Put(p.contacts, contactId, c)]

recordSurveyResponseOn(p, contactId, answer, at) ==
    LET c0 == FetchOrCreate(p, contactId)
        c  == [c0 EXCEPT !.surveyAnswer = answer,
                         !.surveyLogs = Append(@, [at |-> at, answer |-> answer])]
    IN [p EXCEPT !.contacts = Put(p.contacts, contactId, c)]

\* ----------------------------------------------- clearSurveyResponse
clearSurveyResponseOn_DropsLogs(p, contactId) ==
    IF contactId \in DOMAIN p.contacts
    THEN [p EXCEPT !.contacts[contactId].surveyAnswer = Unset,
                   !.contacts[contactId].surveyLogs = <<>>]
    ELSE p

clearSurveyResponseOn(p, contactId) ==
    IF contactId \in DOMAIN p.contacts
    THEN [p EXCEPT !.contacts[contactId].surveyAnswer = Unset]
    ELSE p

\* --------------------------------------------------------- pickNextId
\* CampaignProgress | null: the progress state before the first load
Null == [null |-> TRUE]

Strategies == {"unattempted", "missed"}

RECURSIVE ScanUnattempted_IgnoresSkip(_, _, _)
ScanUnattempted_IgnoresSkip(ids, p, skipId) ==
    IF ids = <<>> THEN Unset
    ELSE LET id == Head(ids) IN
         IF id \notin DOMAIN p.contacts \/ p.contacts[id].attempts = 0 THEN id
         ELSE ScanUnattempted_IgnoresSkip(Tail(ids), p, skipId)

RECURSIVE ScanUnattempted(_, _, _)
ScanUnattempted(ids, p, skipId) ==
    IF ids = <<>> THEN Unset
    ELSE LET id == Head(ids) IN
         IF id = skipId THEN ScanUnattempted(Tail(ids), p, skipId)
         ELSE IF id \notin DOMAIN p.contacts \/ p.contacts[id].attempts = 0 THEN id
         ELSE ScanUnattempted(Tail(ids), p, skipId)

RECURSIVE ScanMissed_AnyOutcome(_, _, _)
ScanMissed_AnyOutcome(ids, p, skipId) ==
    IF ids = <<>> THEN Unset
    ELSE LET id == Head(ids) IN
         IF id = skipId THEN ScanMissed_AnyOutcome(Tail(ids), p, skipId)
         ELSE IF id \in DOMAIN p.contacts /\ p.contacts[id].outcome # Unset THEN id
         ELSE ScanMissed_AnyOutcome(Tail(ids), p, skipId)

RECURSIVE ScanMissed(_, _, _)
ScanMissed(ids, p, skipId) ==
    IF ids = <<>> THEN Unset
    ELSE LET id == Head(ids) IN
         IF id = skipId THEN ScanMissed(Tail(ids), p, skipId)
         ELSE IF id \in DOMAIN p.contacts /\ p.contacts[id].outcome = "no_answer" THEN id
         ELSE ScanMissed(Tail(ids), p, skipId)

\* ids is the queueIds the screen derived; the result Unset is undefined
pickNextId(ids, p, strategy, skipId) ==
    IF p = Null THEN Unset
    ELSE IF strategy = "unattempted" THEN ScanUnattempted(ids, p, skipId)
    ELSE ScanMissed(ids, p, skipId)

Pick(ids, strategy, skipId, result) ==
    [queueIds |-> ids, strategy |-> strategy, skipId |-> skipId, result |-> result]

\* the result of a call that has not returned yet
Pending == "pending"

NoPick == Pick(<<>>, "none", Unset, Pending)

\* advance(strategy, skipId), called and not resolved
Advance(strategy, skipId) == [strategy |-> strategy, skipId |-> skipId]

\* no call of advance is in flight
NoAdvance == Advance("none", Unset)

\* a saved Campaign: the fields the derivation of the ids reads
SavedId == "c1"

Campaign(saved, conds, studentIds) ==
    [id |-> SavedId, saved |-> saved, filters |-> conds, studentIds |-> studentIds]

\* no campaign has been saved
NoCampaign == Campaign(FALSE, <<>>, <<>>)

\* a derivation of the contact ids: who derived, the filtered students and
\* their ids
Derivation(by, filtered, ids) == [by |-> by, filtered |-> filtered, ids |-> ids]

NoDerivation == Derivation("none", <<>>, <<>>)

\* createCampaigns on a given roster, with the FilterSet the user has
\* built, before the campaign is saved
\* no store call is in flight
NoCall == [stage |-> "none"]

\* an export: who built it, from what, and what it returned
Export(by, of, result) == [by |-> by, of |-> of, result |-> result]

NoExport == Export("none", <<>>, <<>>)

Editing(data, conds) ==
    /\ students = data
    /\ filters = conds
    /\ campaign = NoCampaign
    /\ derived = NoDerivation

\* the contacts of a queue a pass of a strategy is to present, by the
\* snapshot the store holds (none: no contact has an attempt)
EligibleIds(ids, st, campaignId, strategy) ==
    LET key == storageKey(campaignId)
        held(id) == key \in DOMAIN st /\ id \in DOMAIN st[key].contacts
    IN { ids[i] : i \in { j \in DOMAIN ids :
            IF strategy = "unattempted"
            THEN ~held(ids[j]) \/ st[key].contacts[ids[j]].attempts = 0
            ELSE held(ids[j]) /\ st[key].contacts[ids[j]].outcome = "no_answer" } }

\* a pass: its strategy and the contacts that were eligible when it began
Pass(strategy, eligible) == [strategy |-> strategy, eligible |-> eligible]

NoPass == Pass("none", {})

\* the screen as its first render leaves it, on a given queue
Mounted(ids) ==
    /\ queueIds = ids
    /\ progress = Null
    /\ mode = "idle"
    /\ currentId = Unset
    /\ passStrategy = "unattempted"
    /\ inflight = NoAdvance
    /\ presented = <<>>
    /\ finished = FALSE
    /\ passStart = NoPass

\* ------------------------------------------- the roster and its filters
\* A string is the sequence of its characters.  The characters of the model
\* are the digits and the letters a, b, A, B: no sign, point, exponent or
\* white space, so parseFloat reads the digits a string starts with.
Digits == <<"0", "1", "2", "3", "4", "5", "6", "7", "8", "9">>

IsDigit(ch) == \E i \in 1..Len(Digits) : Digits[i] = ch

DigitValue(ch) == (CHOOSE i \in 1..Len(Digits) : Digits[i] = ch) - 1

\* Number.NaN: the numbers of the model are not negative
NaN == -1

isNaN(x) == x = NaN

\* the value of the digits str starts with, after the value acc of the
\* digits read so far
RECURSIVE ReadDigits(_, _)
ReadDigits(str, acc) ==
    IF str = <<>> \/ ~IsDigit(Head(str)) THEN acc
    ELSE ReadDigits(Tail(str), 10 * acc + DigitValue(Head(str)))

parseFloat_EmptyIsZero(str) ==
    IF str = <<>> THEN 0
    ELSE IF ~IsDigit(Head(str)) THEN NaN
    ELSE ReadDigits(str, 0)

parseFloat(str) ==
    IF str = <<>> \/ ~IsDigit(Head(str)) THEN NaN
    ELSE ReadDigits(str, 0)

\* String(n) of a non-negative integer
RECURSIVE String(_)
String(n) ==
    IF n < 10 THEN <<Digits[n + 1]>>
    ELSE Append(String(n \div 10), Digits[(n % 10) + 1])

LowerChar(ch) == IF ch = "A" THEN "a" ELSE IF ch = "B" THEN "b" ELSE ch

toLowerCase(str) == [i \in 1..Len(str) |-> LowerChar(str[i])]

\* str.includes(sub)
includes(str, sub) ==
    \E i \in 1..(Len(str) - Len(sub) + 1) : SubSeq(str, i, i + Len(sub) - 1) = sub

Operators == {"=", "~", ">", ">=", "<", "<="}

\* A Student is a record of cells; a field it does not have reads as
\* undefined.  The cells of the model are strings.
Students ==
    { [id |-> <<"1">>, grade |-> <<"1", "0">>],
      [grade |-> <<"9", "a", "b">>],
      [grade |-> <<"A", "B">>],
      [id |-> <<"0">>] }

\* every roster of at most MaxRoster students, in every order
Rosters == UNION {[1..n -> Students] : n \in 0..MaxRoster}

FilterValues == {<<"9">>, <<"a", "b">>}

FilterConditions == [field : {"grade"}, op : Operators, value : FilterValues]

\* every FilterSet of at most MaxFilters conditions
FilterSets == UNION {[1..n -> FilterConditions] : n \in 0..MaxFilters}

\* getStudentId: s.id ?? String(fallbackIndex), as a string
getStudentId(s, fallbackIndex) ==
    IF "id" \in DOMAIN s THEN s.id ELSE String(fallbackIndex)

\* the callback of filters.every: does the row satisfy the condition f
matchesCondition(row, f) ==
    LET cell == IF f.field \in DOMAIN row THEN row[f.field] ELSE <<>>
        val == f.value
    IN IF f.op \in {">", ">=", "<", "<="}
       THEN LET a == parseFloat(cell)
                b == parseFloat(val)
            IN IF isNaN(a) \/ isNaN(b) THEN FALSE
               ELSE IF f.op = ">" THEN a > b
               ELSE IF f.op = ">=" THEN a >= b
               ELSE IF f.op = "<" THEN a < b
               ELSE a <= b
       ELSE IF f.op = "=" THEN toLowerCase(cell) = toLowerCase(val)
       ELSE IF f.op = "~" THEN includes(toLowerCase(cell), toLowerCase(val))
       ELSE FALSE

RECURSIVE every_StopsAtFirst(_, _)
every_StopsAtFirst(conds, row) ==
    IF conds = <<>> THEN TRUE
    ELSE matchesCondition(row, Head(conds))

\* filters.every(...)
RECURSIVE every(_, _)
every(conds, row) ==
    IF conds = <<>> THEN TRUE
    ELSE matchesCondition(row, Head(conds)) /\ every(Tail(conds), row)

\* data.filter(...)
RECURSIVE filter(_, _)
filter(data, conds) ==
    IF data = <<>> THEN <<>>
    ELSE IF every(conds, Head(data))
         THEN <<Head(data)>> \o filter(Tail(data), conds)
         ELSE filter(Tail(data), conds)

applyFilters(data, conds) ==
    IF Len(conds) = 0 THEN data ELSE filter(data, conds)

\* list.map((s, i) => getStudentId(s, i)): the index starts at 0
mapStudentIds(list) == [i \in 1..Len(list) |-> getStudentId(list[i], i - 1)]

\* ------------------------------------------------------------ the calls
NotInitialized == "Progress not initialized"
NoError == "ok"

\* a call that threw: which one, on which campaign, and the Error's message
Throw(op, campaignId, error) == [op |-> op, campaignId |-> campaignId, error |-> error]

\* the last call returned normally
NoThrow == Throw("none", "", NoError)

Init ==
    /\ storage = <<>>
    /\ now = 1
    /\ thrown = NoThrow
    /\ picked = NoPick
    /\ Mounted(<<>>)
    /\ Editing(<<>>, <<>>)
    /\ exported = NoExport
    /\ call = NoCall

\* the clock moves between two calls
Tick ==
    /\ now < MaxTime
    /\ now' = now + 1
    /\ UNCHANGED <<storage, thrown, others>>

LoadOrInit(campaignId, contactIds) ==
    /\ storage' = setItem(storage, storageKey(campaignId),
                          loadOrInitProgress(storage, campaignId, contactIds))
    /\ thrown' = NoThrow
    /\ UNCHANGED <<now, others>>

RecordOutcome(campaignId, contactId, outcome) ==
    LET key == storageKey(campaignId) IN
    IF key \notin DOMAIN storage
    THEN /\ thrown' = Throw("recordOutcome", campaignId, NotInitialized)
         /\ UNCHANGED <<storage, now, others>>
    ELSE /\ Entries(storage[key]) < MaxEntries
         /\ storage' = setItem(storage, key,
                               recordOutcomeOn(storage[key], contactId, outcome, now))
         /\ thrown' = NoThrow
         /\ UNCHANGED <<now, others>>

GetSummary(campaignId) ==
    /\ thrown' = IF storageKey(campaignId) \in DOMAIN storage
                 THEN NoThrow ELSE Throw("getSummary", campaignId, NotInitialized)
    /\ UNCHANGED <<storage, now, others>>

ClearMissedOutcomes(campaignId) ==
    LET key == storageKey(campaignId) IN
    IF key \notin DOMAIN storage
    THEN /\ thrown' = Throw("clearMissedOutcomes", campaignId, NotInitialized)
         /\ UNCHANGED <<storage, now, others>>
    ELSE /\ storage' = setItem(storage, key, clearMissedOutcomesOn(storage[key]))
         /\ thrown' = NoThrow
         /\ UNCHANGED <<now, others>>

RemoveProgress(campaignId) ==
    /\ storage' = removeItem(storage, storageKey(campaignId))
    /\ thrown' = NoThrow
    /\ UNCHANGED <<now, others>>

RecordSurveyResponse_CreatesSnapshot(campaignId, contactId, answer) ==
    LET key == storageKey(campaignId)
        p == IF key \in DOMAIN storage THEN storage[key]
             ELSE Fresh(campaignId, <<contactId>>)
    IN /\ Entries(p) < MaxEntries
       /\ storage' = setItem(storage, key, recordSurveyResponseOn(p, contactId, answer, now))
       /\ thrown' = NoThrow
       /\ UNCHANGED <<now, others>>

RecordSurveyResponse(campaignId, contactId, answer) ==
    LET key == storageKey(campaignId) IN
    IF key \notin DOMAIN storage
    THEN /\ thrown' = Throw("recordSurveyResponse", campaignId, NotInitialized)
         /\ UNCHANGED <<storage, now, others>>
    ELSE /\ Entries(storage[key]) < MaxEntries
         /\ storage' = setItem(storage, key,
                               recordSurveyResponseOn(storage[key], contactId, answer, now))
         /\ thrown' = NoThrow
         /\ UNCHANGED <<now, others>>

ClearSurveyResponse(campaignId, contactId) ==
    LET key == storageKey(campaignId) IN
    IF key \notin DOMAIN storage
    THEN /\ thrown' = Throw("clearSurveyResponse", campaignId, NotInitialized)
         /\ UNCHANGED <<storage, now, others>>
    ELSE /\ storage' = setItem(storage, key, clearSurveyResponseOn(storage[key], contactId))
         /\ thrown' = NoThrow
         /\ UNCHANGED <<now, others>>

Next ==
    \/ Tick
    \/ \E c \in CampaignIds, q \in QueueLists : LoadOrInit(c, q)
    \/ \E c \in CampaignIds, id \in Ids, o \in CallOutcome : RecordOutcome(c, id, o)
    \/ \E c \in CampaignIds : GetSummary(c)
    \/ \E c \in CampaignIds : ClearMissedOutcomes(c)
    \/ \E c \in CampaignIds : RemoveProgress(c)
    \/ \E c \in CampaignIds, id \in Ids, a \in Answers : RecordSurveyResponse(c, id, a)
    \/ \E c \in CampaignIds, id \in Ids : ClearSurveyResponse(c, id)

Spec == Init /\ [][Next]_vars

\* ------------------------------------------------ pickNextId on its own
\* A screen instance has one queue list; the strategy and the skipId of the
\* calls are drawn with it (undefined included).
InitPick ==
    /\ storage = <<>>
    /\ now = 1
    /\ thrown = NoThrow
    /\ picked \in {Pick(q, s, skip, Pending) :
                     q \in QueueLists, s \in Strategies, skip \in Ids \cup {Unset}}
    /\ Mounted(<<>>)
    /\ Editing(<<>>, <<>>)
    /\ exported = NoExport
    /\ call = NoCall

\* the call of pickNextId on the persisted snapshot, and its result
PickNext(campaignId) ==
    /\ storageKey(campaignId) \in DOMAIN storage
    /\ picked.result = Pending
    /\ picked' = [picked EXCEPT !.result =
                      pickNextId(picked.queueIds, storage[storageKey(campaignId)],
                                 picked.strategy, picked.skipId)]
    /\ UNCHANGED <<call, exported, roster, storage, now, thrown, screen>>

NextPick ==
    \/ \E c \in CampaignIds, q \in QueueLists : LoadOrInit(c, q)
    \/ \E c \in CampaignIds, id \in Ids, o \in CallOutcome : RecordOutcome(c, id, o)
    \/ \E c \in CampaignIds : ClearMissedOutcomes(c)
    \/ \E c \in CampaignIds : PickNext(c)

SpecPick == InitPick /\ [][NextPick]_vars

\* ------------------------------------------------- the execution screen
\* One run of the screen on one campaign.  A handler runs to its end before
\* the next one starts; between the call of advance and its resolution the
\* screen renders the mode the handler has set, so the two are two steps.
\* An id is a non-empty string, so !nextId and !currentId are tests for
\* undefined.
RunQueues == UNION {[1..n -> RunIds] : n \in 0..MaxRunQueue}

InitRun ==
    /\ storage = <<>>
    /\ now = 1
    /\ thrown = NoThrow
    /\ picked = NoPick
    /\ \E q \in RunQueues : Mounted(q)
    /\ Editing(<<>>, <<>>)
    /\ exported = NoExport
    /\ call = NoCall

\* SummaryBlock: allDone
allDone(totals) == totals.missed = 0 /\ totals.made = totals.total

\* the card of the current student, with its outcome buttons and survey chips
CardShown == mode \in {"running", "missed"} /\ currentId # Unset

\* useEffect on [campaign.id, queueIds]: load or initialise the progress
Mount(campaignId) ==
    /\ progress = Null
    /\ inflight = NoAdvance
    /\ LET p == loadOrInitProgress(storage, campaignId, queueIds) IN
          /\ storage' = setItem(storage, storageKey(campaignId), p)
          /\ progress' = p
    /\ thrown' = NoThrow
    /\ UNCHANGED <<passStart, call, exported, roster, now, picked, queueIds, mode, currentId, passStrategy, inflight,
                   presented, finished>>

AdvanceDone_MissedPassNeverEnds(campaignId) ==
    /\ inflight # NoAdvance
    /\ LET fresh == loadOrInitProgress(storage, campaignId, queueIds)
           nextId == pickNextId(queueIds, fresh, inflight.strategy, inflight.skipId)
       IN /\ storage' = setItem(storage, storageKey(campaignId), fresh)
          /\ progress' = fresh
          /\ picked' = Pick(queueIds, inflight.strategy, inflight.skipId, nextId)
          /\ currentId' = nextId
          /\ mode' = IF nextId = Unset /\ inflight.strategy = "unattempted"
                     THEN "summary" ELSE mode
          /\ presented' = IF nextId = Unset THEN presented ELSE Append(presented, nextId)
    /\ inflight' = NoAdvance
    /\ thrown' = NoThrow
    /\ UNCHANGED <<passStart, call, exported, roster, now, queueIds, passStrategy, finished>>

AdvanceDone_UsesInMemory(campaignId) ==
    /\ inflight # NoAdvance
    /\ LET fresh == loadOrInitProgress(storage, campaignId, queueIds)
           nextId == pickNextId(queueIds, progress, inflight.strategy, inflight.skipId)
       IN /\ storage' = setItem(storage, storageKey(campaignId), fresh)
          /\ progress' = fresh
          /\ picked' = Pick(queueIds, inflight.strategy, inflight.skipId, nextId)
          /\ currentId' = nextId
          /\ mode' = IF nextId = Unset THEN "summary" ELSE mode
          /\ presented' = IF nextId = Unset THEN presented ELSE Append(presented, nextId)
    /\ inflight' = NoAdvance
    /\ thrown' = NoThrow
    /\ UNCHANGED <<passStart, call, exported, roster, now, queueIds, passStrategy, finished>>

AdvanceDone_KeepsCard(campaignId) ==
    /\ inflight # NoAdvance
    /\ LET fresh == loadOrInitProgress(storage, campaignId, queueIds)
           nextId == pickNextId(queueIds, fresh, inflight.strategy, inflight.skipId)
       IN /\ storage' = setItem(storage, storageKey(campaignId), fresh)
          /\ progress' = fresh
          /\ picked' = Pick(queueIds, inflight.strategy, inflight.skipId, nextId)
          /\ currentId' = IF nextId = Unset THEN currentId ELSE nextId
          /\ mode' = IF nextId = Unset THEN "summary" ELSE mode
          /\ presented' = IF nextId = Unset THEN presented ELSE Append(presented, nextId)
    /\ inflight' = NoAdvance
    /\ thrown' = NoThrow
    /\ UNCHANGED <<passStart, call, exported, roster, now, queueIds, passStrategy, finished>>

\* the part of advance after its await
AdvanceDone(campaignId) ==
    /\ inflight # NoAdvance
    /\ LET fresh == loadOrInitProgress(storage, campaignId, queueIds)
           nextId == pickNextId(queueIds, fresh, inflight.strategy, inflight.skipId)
       IN /\ storage' = setItem(storage, storageKey(campaignId), fresh)
          /\ progress' = fresh
          /\ picked' = Pick(queueIds, inflight.strategy, inflight.skipId, nextId)
          /\ currentId' = nextId
          /\ mode' = IF nextId = Unset THEN "summary" ELSE mode
          /\ presented' = IF nextId = Unset THEN presented ELSE Append(presented, nextId)
    /\ inflight' = NoAdvance
    /\ thrown' = NoThrow
    /\ UNCHANGED <<passStart, call, exported, roster, now, queueIds, passStrategy, finished>>

BeginCalls_ShowsFirst(campaignId) ==
    /\ mode = "idle"
    /\ inflight = NoAdvance
    /\ passStrategy' = "unattempted"
    /\ mode' = "running"
    /\ IF queueIds = <<>>
       THEN /\ inflight' = Advance("unattempted", Unset)
            /\ UNCHANGED currentId
       ELSE /\ currentId' = Head(queueIds)
            /\ UNCHANGED inflight
    /\ presented' = IF queueIds = <<>> THEN <<>> ELSE <<Head(queueIds)>>
    /\ passStart' = Pass(passStrategy', EligibleIds(queueIds, storage, campaignId, passStrategy'))
    /\ UNCHANGED <<call, exported, roster, storage, now, thrown, picked, queueIds, progress, finished>>

BeginCalls_FromSummary(campaignId) ==
    /\ mode \in {"idle", "summary"}
    /\ inflight = NoAdvance
    /\ ~finished
    /\ passStrategy' = "unattempted"
    /\ mode' = "running"
    /\ inflight' = Advance("unattempted", Unset)
    /\ presented' = <<>>
    /\ passStart' = Pass(passStrategy', EligibleIds(queueIds, storage, campaignId, passStrategy'))
    /\ UNCHANGED <<call, exported, roster, storage, now, thrown, picked, queueIds, progress, currentId, finished>>

\* the Begin Calls button of the idle screen
BeginCalls(campaignId) ==
    /\ mode = "idle"
    /\ inflight = NoAdvance
    /\ passStrategy' = "unattempted"
    /\ mode' = "running"
    /\ inflight' = Advance("unattempted", Unset)
    /\ presented' = <<>>
    /\ passStart' = Pass(passStrategy', EligibleIds(queueIds, storage, campaignId, passStrategy'))
    /\ UNCHANGED <<call, exported, roster, storage, now, thrown, picked, queueIds, progress, currentId, finished>>

\* Proceed to Missed Contacts, shown by the summary unless all is done
BeginMissed(campaignId) ==
    /\ mode = "summary"
    /\ inflight = NoAdvance
    /\ ~finished
    /\ storageKey(campaignId) \in DOMAIN storage
    /\ ~allDone(storage[storageKey(campaignId)].totals)
    /\ passStrategy' = "missed"
    /\ mode' = "missed"
    /\ inflight' = Advance("missed", Unset)
    /\ presented' = <<>>
    /\ passStart' = Pass(passStrategy', EligibleIds(queueIds, storage, campaignId, passStrategy'))
    /\ UNCHANGED <<call, exported, roster, storage, now, thrown, picked, queueIds, progress, currentId, finished>>

\* a survey chip of the card
OnSelectSurvey(campaignId, answer) ==
    LET key == storageKey(campaignId) IN
    /\ CardShown
    /\ inflight = NoAdvance
    /\ key \in DOMAIN storage
    /\ Entries(storage[key]) < MaxRunEntries
    /\ storage' = setItem(storage, key,
                          recordSurveyResponseOn(storage[key], currentId, answer, now))
    /\ thrown' = NoThrow
    /\ UNCHANGED <<call, exported, roster, now, picked, screen>>

OnOutcome_NeverSkips(campaignId, outcome) ==
    LET key == storageKey(campaignId) IN
    /\ CardShown
    /\ inflight = NoAdvance
    /\ key \in DOMAIN storage
    /\ Entries(storage[key]) < MaxRunEntries
    /\ LET p == recordOutcomeOn(storage[key], currentId, outcome, now) IN
          /\ storage' = setItem(storage, key, p)
          /\ progress' = p
    /\ inflight' = Advance(passStrategy, Unset)
    /\ thrown' = NoThrow
    /\ UNCHANGED <<passStart, call, exported, roster, now, picked, queueIds, mode, currentId, passStrategy, presented,
                   finished>>

\* the No Answer and Answered buttons of the card
OnOutcome(campaignId, outcome) ==
    LET key == storageKey(campaignId) IN
    /\ CardShown
    /\ inflight = NoAdvance
    /\ key \in DOMAIN storage
    /\ Entries(storage[key]) < MaxRunEntries
    /\ LET p == recordOutcomeOn(storage[key], currentId, outcome, now) IN
          /\ storage' = setItem(storage, key, p)
          /\ progress' = p
    /\ inflight' = Advance(passStrategy, IF passStrategy = "missed" THEN currentId ELSE Unset)
    /\ thrown' = NoThrow
    /\ UNCHANGED <<passStart, call, exported, roster, now, picked, queueIds, mode, currentId, passStrategy, presented,
                   finished>>

\* the Done / Finish for now button of the summary
OnDone ==
    /\ mode = "summary"
    /\ inflight = NoAdvance
    /\ ~finished
    /\ finished' = TRUE
    /\ UNCHANGED <<passStart, call, exported, roster, storage, now, thrown, picked, queueIds, progress, mode, currentId,
                   passStrategy, inflight, presented>>

NextRun ==
    \/ \E c \in CampaignIds : Mount(c)
    \/ \E c \in CampaignIds : BeginCalls(c)
    \/ \E c \in CampaignIds : AdvanceDone(c)
    \/ \E c \in CampaignIds, o \in CallOutcome : OnOutcome(c, o)
    \/ \E c \in CampaignIds, a \in Answers : OnSelectSurvey(c, a)
    \/ \E c \in CampaignIds : BeginMissed(c)
    \/ OnDone

SpecRun == InitRun /\ [][NextRun]_vars

\* ------------------------------------------------------ the campaign list
\* The campaigns are one JSON array under one AsyncStorage key; the entry of
\* a campaign is modelled by its id.
STORAGE_KEY == "connects.campaigns.v1"

listKey == <<STORAGE_KEY>>

\* the campaigns the list screen deletes and the execution screen opens
ListedIds == {"c1", "c2"}

ListEntry(id) == [id |-> id]

\* the queue of every listed campaign
ListedQueue == <<"a", "b">>

\* listCampaigns: a missing key reads as the empty list
listCampaigns(st) == IF listKey \in DOMAIN st THEN st[listKey] ELSE <<>>

\* existing.filter(c => c.id !== id)
RECURSIVE withoutId(_, _)
withoutId(list, id) ==
    IF list = <<>> THEN <<>>
    ELSE IF Head(list).id = id THEN withoutId(Tail(list), id)
    ELSE <<Head(list)>> \o withoutId(Tail(list), id)

\* the store after saveCampaign: replace the entry of that id, or unshift
saveCampaign(st, entry) ==
    LET existing == listCampaigns(st) IN
    setItem(st, listKey,
            IF \E i \in 1..Len(existing) : existing[i].id = entry.id
            THEN LET idx == CHOOSE i \in 1..Len(existing) :
                               /\ existing[i].id = entry.id
                               /\ \A j \in 1..(i - 1) : existing[j].id # entry.id
                 IN [existing EXCEPT ![idx] = entry]
            ELSE <<entry>> \o existing)

\* the store after deleteCampaign
deleteCampaign(st, id) == setItem(st, listKey, withoutId(listCampaigns(st), id))

\* the store after removeProgress
removeProgress(st, campaignId) == removeItem(st, storageKey(campaignId))

\* getProgress: the snapshot, or null
getProgress(st, campaignId) ==
    IF storageKey(campaignId) \in DOMAIN st THEN st[storageKey(campaignId)] ELSE Null

InitList ==
    /\ storage = <<>>
    /\ now = 1
    /\ thrown = NoThrow
    /\ picked = NoPick
    /\ Mounted(<<>>)
    /\ Editing(<<>>, <<>>)
    /\ exported = NoExport
    /\ call = NoCall

\* createCampaigns: onSave persists the new campaign
SaveCampaign(id) ==
    /\ storage' = saveCampaign(storage, ListEntry(id))
    /\ thrown' = NoThrow
    /\ UNCHANGED <<now, others>>

PerformDelete_KeepsProgress(id) ==
    /\ storage' = deleteCampaign(storage, id)
    /\ thrown' = NoThrow
    /\ UNCHANGED <<now, others>>

\* the campaigns list: deleteCampaign, then removeProgress with its error
\* swallowed
PerformDelete(id) ==
    /\ storage' = removeProgress(deleteCampaign(storage, id), id)
    /\ thrown' = NoThrow
    /\ UNCHANGED <<now, others>>

NextList ==
    \/ \E id \in ListedIds : SaveCampaign(id)
    \/ \E c \in ListedIds : LoadOrInit(c, ListedQueue)
    \/ \E c \in ListedIds, id \in Range(ListedQueue), o \in CallOutcome :
          RecordOutcome(c, id, o)
    \/ \E id \in ListedIds : PerformDelete(id)

SpecList == InitList /\ [][NextList]_vars

\* --------------------------------------------------------- the CSV cells
\* A cell value is a string, or null / undefined.
JsString(text) == [defined |-> TRUE, text |-> text]

JsNull == [defined |-> FALSE, text |-> <<>>]

Quote == "\""
Comma == ","
Newline == "\n"

\* the characters of the cells: the three that make a cell quoted, and one
\* that does not
CsvChars == {Quote, Comma, Newline, "a"}

\* Smith, "Bob"
SmithBob == <<"S", "m", "i", "t", "h", Comma, " ", Quote, "B", "o", "b", Quote>>

CellValues ==
    {JsString(t) : t \in UNION {[1..n -> CsvChars] : n \in 0..MaxCell}}
        \cup {JsString(SmithBob), JsNull}

\* /[",\n]/.test(s)
testSpecial(s) == \E i \in 1..Len(s) : s[i] \in {Quote, Comma, Newline}

\* s.replace(/"/g, '""')
RECURSIVE replaceQuotes(_)
replaceQuotes(s) ==
    IF s = <<>> THEN <<>>
    ELSE (IF Head(s) = Quote THEN <<Quote, Quote>> ELSE <<Head(s)>>)
             \o replaceQuotes(Tail(s))

\* campaignProgress.ts: the escaper of the two log CSVs
csvField(v) ==
    IF ~v.defined THEN <<>>
    ELSE LET s == v.text IN
         IF testSpecial(s) THEN <<Quote>> \o replaceQuotes(s) \o <<Quote>> ELSE s

csvEscape_NoDoubling(val) ==
    LET s == IF val.defined THEN val.text ELSE <<>> IN
    IF testSpecial(s) THEN <<Quote>> \o s \o <<Quote>> ELSE s

\* the campaigns list: the escaper of the summary report; String(val ?? '')
csvEscape(val) ==
    LET s == IF val.defined THEN val.text ELSE <<>> IN
    IF testSpecial(s) THEN <<Quote>> \o replaceQuotes(s) \o <<Quote>> ELSE s

InitCsv ==
    /\ storage = <<>>
    /\ now = 1
    /\ thrown = NoThrow
    /\ picked = NoPick
    /\ Mounted(<<>>)
    /\ Editing(<<>>, <<>>)
    /\ exported \in {Export(Pending, v, <<>>) : v \in CellValues}
    /\ call = NoCall

CsvField ==
    /\ exported' = Export("csvField", exported.of, csvField(exported.of))
    /\ UNCHANGED <<call, storage, now, thrown, picked, screen, roster>>

CsvEscape ==
    /\ exported' = Export("csvEscape", exported.of, csvEscape(exported.of))
    /\ UNCHANGED <<call, storage, now, thrown, picked, screen, roster>>

NextCsv ==
    \/ CsvField
    \/ CsvEscape

SpecCsv == InitCsv /\ [][NextCsv]_vars

\* ------------------------------------------------ the exports and reports
\* new Date(t).toISOString(): the text of the instant t, never empty
toISOString(t) == <<"T", t>>

\* t ? new Date(t).toISOString() : ''
isoOrEmpty(t) == IF t = NoTime THEN <<>> ELSE toISOString(t)

\* cp?.outcome ?? '' and cp?.surveyAnswer ?? ''
orEmpty(v) == IF v = Unset THEN "" ELSE v

\* Object.entries(p.contacts): the keys of the model are canonical numeric
\* strings, which an object enumerates in ascending numeric order
RECURSIVE objectKeys(_)
objectKeys(contacts) ==
    IF DOMAIN contacts = {} THEN <<>>
    ELSE LET k == CHOOSE x \in DOMAIN contacts :
                      \A y \in DOMAIN contacts : parseFloat(x) <= parseFloat(y)
         IN <<k>> \o objectKeys([x \in DOMAIN contacts \ {k} |-> contacts[x]])

\* campaignProgress.ts lastTimestampForAnswer: the at of the latest entry
\* with that answer, else the at of the last entry; null (0) without entries
RECURSIVE lastTimestampForAnswer(_, _, _)
lastTimestampForAnswer(cp, answer, i) ==
    IF cp.surveyLogs = <<>> THEN NoTime
    ELSE IF i = 0 THEN cp.surveyLogs[Len(cp.surveyLogs)].at
    ELSE IF cp.surveyLogs[i].answer = answer THEN cp.surveyLogs[i].at
    ELSE lastTimestampForAnswer(cp, answer, i - 1)

SurveyHeader == <<"contactId", "answer", "timestamp">>
OutcomesHeader == <<"contactId", "outcome", "timestamp">>

\* The text of a CSV is the sequence of its lines, a line being the sequence
\* of its cells: rows.join('\n') ends with a newline when the last line is
\* the empty one.  The ids of the model go through csvField; the outcomes,
\* answers and timestamps hold no character that csvField would quote.
RECURSIVE surveyRows(_, _)
surveyRows(contacts, keys) ==
    IF keys = <<>> THEN <<>>
    ELSE LET cp == contacts[Head(keys)] IN
         (IF cp.surveyAnswer = Unset THEN <<>>
          ELSE << <<csvField(JsString(Head(keys))), cp.surveyAnswer,
                    isoOrEmpty(lastTimestampForAnswer(cp, cp.surveyAnswer,
                                                      Len(cp.surveyLogs)))>> >>)
             \o surveyRows(contacts, Tail(keys))

exportSurveyCSV(st, campaignId) ==
    IF storageKey(campaignId) \notin DOMAIN st THEN <<SurveyHeader, <<>>>>
    ELSE LET p == st[storageKey(campaignId)] IN
         <<SurveyHeader>> \o surveyRows(p.contacts, objectKeys(p.contacts)) \o << <<>> >>

logRows(contactId, logs) ==
    [i \in 1..Len(logs) |->
        <<csvField(JsString(contactId)), logs[i].outcome, isoOrEmpty(logs[i].at)>>]

RECURSIVE outcomeRows(_, _)
outcomeRows(contacts, keys) ==
    IF keys = <<>> THEN <<>>
    ELSE logRows(Head(keys), contacts[Head(keys)].logs)
             \o outcomeRows(contacts, Tail(keys))

exportCallOutcomesCSV(st, campaignId) ==
    IF storageKey(campaignId) \notin DOMAIN st THEN <<OutcomesHeader, <<>>>>
    ELSE LET p == st[storageKey(campaignId)] IN
         <<OutcomesHeader>> \o outcomeRows(p.contacts, objectKeys(p.contacts)) \o << <<>> >>

\* String.prototype.trim
RECURSIVE trimStart(_)
trimStart(s) == IF s # <<>> /\ Head(s) = " " THEN trimStart(Tail(s)) ELSE s

RECURSIVE trimEnd(_)
trimEnd(s) ==
    IF s # <<>> /\ s[Len(s)] = " " THEN trimEnd(SubSeq(s, 1, Len(s) - 1)) ELSE s

trim(s) == trimEnd(trimStart(s))

\* String(stu?.[f] ?? '')
fieldText(stu, f) == IF f \in DOMAIN stu THEN stu[f] ELSE <<>>

\* `${first.trim()} ${last.trim()}`.trim()
namePair(stu, f, l) == trim(trim(fieldText(stu, f)) \o <<" ">> \o trim(fieldText(stu, l)))

NonEmpty(s) == s # <<>>

deriveFullName(stu) ==
    LET candidates ==
            SelectSeq(<<namePair(stu, "first_name", "last_name"),
                        namePair(stu, "FirstName", "LastName"),
                        namePair(stu, "First Name", "Last Name"),
                        trim(fieldText(stu, "name")),
                        trim(fieldText(stu, "full_name"))>>, NonEmpty)
    IN IF candidates = <<>> THEN <<>> ELSE candidates[1]

\* idToStudent[sid]: the last of the filtered students with that id
idToStudent(filtered, sid) ==
    filtered[CHOOSE i \in 1..Len(filtered) :
                 /\ getStudentId(filtered[i], i - 1) = sid
                 /\ \A j \in (i + 1)..Len(filtered) :
                       getStudentId(filtered[j], j - 1) # sid]

\* prog?.contacts?.[sid], undefined without a snapshot or without the contact
hasContact(prog, sid) == prog # Null /\ sid \in DOMAIN prog.contacts

\* part_002 lastTimestampForAnswer: the at of the latest entry with that
\* answer; null (0) without entries, without an answer or without a match
RECURSIVE reportLastTimestampForAnswer(_, _, _)
reportLastTimestampForAnswer(cp, answer, i) ==
    IF cp.surveyLogs = <<>> \/ answer = Unset THEN NoTime
    ELSE IF i = 0 THEN NoTime
    ELSE IF cp.surveyLogs[i].answer = answer THEN cp.surveyLogs[i].at
    ELSE reportLastTimestampForAnswer(cp, answer, i - 1)

Max(a, b) == IF a >= b THEN a ELSE b

reportTimestamp_SurveyOnly(prog, sid) ==
    IF hasContact(prog, sid)
    THEN LET cp == prog.contacts[sid] IN
         reportLastTimestampForAnswer(cp, cp.surveyAnswer, Len(cp.surveyLogs))
    ELSE NoTime

\* Math.max(tCall, tResp)
reportTimestamp(prog, sid) ==
    IF hasContact(prog, sid)
    THEN LET cp == prog.contacts[sid]
             tCall == cp.lastCalledAt
             tResp == reportLastTimestampForAnswer(cp, cp.surveyAnswer, Len(cp.surveyLogs))
         IN Max(tCall, tResp)
    ELSE NoTime

reportRows_DropsUnknown(filtered, c, prog) ==
    LET known == SelectSeq([i \in 1..Len(filtered) |->
                               [student |-> filtered[i], sid |-> getStudentId(filtered[i], i - 1)]],
                           LAMBDA e : hasContact(prog, e.sid))
    IN [i \in 1..Len(known) |->
           [fullName   |-> deriveFullName(idToStudent(filtered, known[i].sid)),
            outcome    |-> orEmpty(prog.contacts[known[i].sid].outcome),
            response   |-> orEmpty(prog.contacts[known[i].sid].surveyAnswer),
            timestamp  |-> isoOrEmpty(reportTimestamp(prog, known[i].sid)),
            studentId  |-> known[i].sid,
            campaignId |-> c]]

\* the rows downloadReport pushes, one per student of the filtered list
reportRows(filtered, c, prog) ==
    [i \in 1..Len(filtered) |->
        LET sid == getStudentId(filtered[i], i - 1)
            has == hasContact(prog, sid)
        IN [fullName   |-> deriveFullName(idToStudent(filtered, sid)),
            outcome    |-> IF has THEN orEmpty(prog.contacts[sid].outcome) ELSE "",
            response   |-> IF has THEN orEmpty(prog.contacts[sid].surveyAnswer) ELSE "",
            timestamp  |-> isoOrEmpty(reportTimestamp(prog, sid)),
            studentId  |-> sid,
            campaignId |-> c]]

\* buildCloudRows.ts lastSurveyTimestamp: null (0) without survey logs
lastSurveyTimestamp(cp) ==
    IF cp.surveyLogs = <<>> THEN NoTime ELSE cp.surveyLogs[Len(cp.surveyLogs)].at

cloudTimestamp_Max(prog, sid) ==
    IF hasContact(prog, sid)
    THEN Max(lastSurveyTimestamp(prog.contacts[sid]), prog.contacts[sid].lastCalledAt)
    ELSE NoTime

\* surveyAt ?? cp?.lastCalledAt ?? null
cloudTimestamp(prog, sid) ==
    IF hasContact(prog, sid)
    THEN LET surveyAt == lastSurveyTimestamp(prog.contacts[sid]) IN
         IF surveyAt # NoTime THEN surveyAt ELSE prog.contacts[sid].lastCalledAt
    ELSE NoTime

\* the rows buildCloudRowsForCampaign pushes
cloudRows(filtered, c, prog) ==
    [i \in 1..Len(filtered) |->
        LET sid == getStudentId(filtered[i], i - 1)
            has == hasContact(prog, sid)
        IN [fullName   |-> namePair(filtered[i], "first_name", "last_name"),
            outcome    |-> IF has THEN orEmpty(prog.contacts[sid].outcome) ELSE "",
            response   |-> IF has THEN orEmpty(prog.contacts[sid].surveyAnswer) ELSE "",
            timestamp  |-> isoOrEmpty(cloudTimestamp(prog, sid)),
            studentId  |-> sid,
            campaignId |-> c]]

\* ---------------------------------- the campaign and the ids it derives
\* createCampaigns builds a FilterSet and saves the campaign with the ids of
\* the matched students; the execution screen and the two report builders
\* derive the ids again from the roster and the saved filters.
InitRoster ==
    /\ storage = <<>>
    /\ now = 1
    /\ thrown = NoThrow
    /\ picked = NoPick
    /\ Mounted(<<>>)
    /\ \E data \in Rosters, conds \in FilterSets : Editing(data, conds)
    /\ exported = NoExport
    /\ call = NoCall

\* createCampaigns: useMemo(() => applyFilters(students, filters))
matched == applyFilters(students, filters)

\* filtered.forEach((student, idx) => ... getStudentId(student, idx) ...):
\* the ids of the rows pushed, idx being the index of the first of list
RECURSIVE forEachStudentId(_, _)
forEachStudentId(list, idx) ==
    IF list = <<>> THEN <<>>
    ELSE <<getStudentId(Head(list), idx)>> \o forEachStudentId(Tail(list), idx + 1)

onSave ==
    /\ ~campaign.saved
    /\ LET studentIds == mapStudentIds(matched) IN
          /\ campaign' = Campaign(TRUE, filters, studentIds)
          /\ derived' = Derivation("createCampaigns", matched, studentIds)
    /\ UNCHANGED <<call, exported, storage, now, thrown, picked, screen, students, filters>>

\* Each of the three derivations that follow is taken once, on the campaign
\* as it was saved.
Saved == campaign.saved /\ derived.by = "createCampaigns"

\* ExecutionScreen: filteredStudents and queueIds
OpenExecution_RosterIndex ==
    /\ Saved
    /\ LET kept == {i \in 1..Len(students) : every(campaign.filters, students[i])}
           Nth(j) == CHOOSE i \in kept : Cardinality({k \in kept : k < i}) = j - 1
       IN derived' = Derivation("execution", applyFilters(students, campaign.filters),
                                [j \in 1..Cardinality(kept) |->
                                    getStudentId(students[Nth(j)], Nth(j) - 1)])
    /\ UNCHANGED <<call, exported, storage, now, thrown, picked, screen, students, filters, campaign>>

OpenExecution ==
    /\ Saved
    /\ LET filteredStudents == applyFilters(students, campaign.filters) IN
          derived' = Derivation("execution", filteredStudents, mapStudentIds(filteredStudents))
    /\ UNCHANGED <<call, exported, storage, now, thrown, picked, screen, students, filters, campaign>>

\* the campaigns list: downloadReport, the Student ID of its rows
DownloadReport ==
    /\ Saved
    /\ LET filtered == applyFilters(students, campaign.filters) IN
          /\ derived' = Derivation("downloadReport", filtered, forEachStudentId(filtered, 0))
          /\ exported' = Export("downloadReport", getProgress(storage, campaign.id),
                                reportRows(filtered, campaign.id,
                                           getProgress(storage, campaign.id)))
    /\ UNCHANGED <<call, storage, now, thrown, picked, screen, students, filters, campaign>>

\* buildCloudRowsForCampaign: the student_id of its rows
BuildCloudRows ==
    /\ Saved
    /\ LET filtered == applyFilters(students, campaign.filters) IN
          /\ derived' = Derivation("buildCloudRows", filtered, forEachStudentId(filtered, 0))
          /\ exported' = Export("buildCloudRows", getProgress(storage, campaign.id),
                                cloudRows(filtered, campaign.id,
                                          getProgress(storage, campaign.id)))
    /\ UNCHANGED <<call, storage, now, thrown, picked, screen, students, filters, campaign>>

NextRoster ==
    \/ onSave
    \/ OpenExecution
    \/ DownloadReport
    \/ BuildCloudRows

SpecRoster == InitRoster /\ [][NextRoster]_vars

\* ------------------------------------------- the reports of a call run
\* A campaign saved on a roster, the store calls of its run, and the
\* exports and reports read from the store meanwhile.
Al == [id |-> <<"7">>, first_name |-> <<"A", "l", " ">>, grade |-> <<"9">>]
NoName == [grade |-> <<"9", "a", "b">>]
Bo == [name |-> <<"B", "o">>]
Zero == [id |-> <<"0">>, grade |-> <<"9">>]

\* the campaigns reported on: a roster and the FilterSet saved on it
ReportCampaigns ==
    { [data |-> <<Al, NoName>>, conds |-> <<>>],
      [data |-> <<Bo, Zero>>,
       conds |-> <<[field |-> "grade", op |-> "=", value |-> <<"9">>]>>] }

\* the lists loadOrInitProgress was called with: the queue, or the queue of
\* a roster that did not hold the last students yet
Prefixes(list) == {SubSeq(list, 1, n) : n \in 0..Len(list)}

InitReport ==
    /\ storage = <<>>
    /\ now = 1
    /\ thrown = NoThrow
    /\ picked = NoPick
    /\ Mounted(<<>>)
    /\ exported = NoExport
    /\ call = NoCall
    /\ \E rc \in ReportCampaigns :
          LET kept == applyFilters(rc.data, rc.conds) IN
          /\ students = rc.data
          /\ filters = rc.conds
          /\ campaign = Campaign(TRUE, rc.conds, mapStudentIds(kept))
          /\ derived = Derivation("createCampaigns", kept, mapStudentIds(kept))

GetProgress_Initializes(campaignId) ==
    /\ storage' = setItem(storage, storageKey(campaignId),
                          loadOrInitProgress(storage, campaignId, <<>>))
    /\ exported' = Export("getProgress", storage'[storageKey(campaignId)],
                          storage'[storageKey(campaignId)])
    /\ thrown' = NoThrow
    /\ UNCHANGED <<call, now, picked, screen, roster>>

GetProgress(campaignId) ==
    /\ exported' = Export("getProgress", getProgress(storage, campaignId),
                          getProgress(storage, campaignId))
    /\ thrown' = NoThrow
    /\ UNCHANGED <<call, storage, now, picked, screen, roster>>

ExportSurveyCSV(campaignId) ==
    /\ exported' = Export("exportSurveyCSV", getProgress(storage, campaignId),
                          exportSurveyCSV(storage, campaignId))
    /\ thrown' = NoThrow
    /\ UNCHANGED <<call, storage, now, picked, screen, roster>>

ExportCallOutcomesCSV(campaignId) ==
    /\ exported' = Export("exportCallOutcomesCSV", getProgress(storage, campaignId),
                          exportCallOutcomesCSV(storage, campaignId))
    /\ thrown' = NoThrow
    /\ UNCHANGED <<call, storage, now, picked, screen, roster>>

\* The model follows the run up to its first export or report: every export
\* and report is taken in every state the run reaches, and the calls of the
\* run are taken while nothing was exported yet.
Running == exported = NoExport /\ Saved

NextReport ==
    \/ Running /\ Tick
    \/ Running /\ \E q \in Prefixes(campaign.studentIds) : LoadOrInit(campaign.id, q)
    \/ Running /\ \E id \in Range(campaign.studentIds), o \in CallOutcome :
                      RecordOutcome(campaign.id, id, o)
    \/ Running /\ \E id \in Range(campaign.studentIds), a \in Answers :
                      RecordSurveyResponse(campaign.id, id, a)
    \/ Running /\ \E id \in Range(campaign.studentIds) :
                      ClearSurveyResponse(campaign.id, id)
    \/ Running /\ ClearMissedOutcomes(campaign.id)
    \/ Running /\ GetProgress(campaign.id)
    \/ Running /\ GetSummary(campaign.id)
    \/ Running /\ ExportSurveyCSV(campaign.id)
    \/ Running /\ ExportCallOutcomesCSV(campaign.id)
    \/ DownloadReport
    \/ BuildCloudRows

SpecReport == InitReport /\ [][NextReport]_vars

\* ------------------------------------------- a store call, step by step
\* Every mutating operation awaits AsyncStorage.getItem, works on the parsed
\* snapshot in memory, awaits one setItem of the whole snapshot and returns
\* it.  Either await can reject; the calls follow one another.
StoreRejected == "AsyncStorage rejected"

MutatingOps == {"loadOrInitProgress", "recordOutcome", "clearMissedOutcomes",
                "recordSurveyResponse", "clearSurveyResponse"}

\* the arguments of a call besides the campaign id
Args(contactIds, contactId, value) ==
    [contactIds |-> contactIds, contactId |-> contactId, value |-> value]

\* the queues loadOrInitProgress is called with
CalledQueues == Prefixes(<<"a", "b">>)

ArgsOf(op) ==
    CASE op = "loadOrInitProgress" -> {Args(q, Unset, Unset) : q \in CalledQueues}
      [] op = "recordOutcome" -> {Args(<<>>, id, o) : id \in Ids, o \in CallOutcome}
      [] op = "clearMissedOutcomes" -> {Args(<<>>, Unset, Unset)}
      [] op = "recordSurveyResponse" -> {Args(<<>>, id, a) : id \in Ids, a \in Answers}
      [] op = "clearSurveyResponse" -> {Args(<<>>, id, Unset) : id \in Ids}

\* a call: before is the store when it began, p the snapshot it holds in
\* memory (and returns), writes the number of setItem that resolved
Call(op, campaignId, args, stage, before, p, writes) ==
    [op |-> op, campaignId |-> campaignId, args |-> args, stage |-> stage,
     before |-> before, p |-> p, writes |-> writes]

\* what the operation makes of the parsed snapshot
mutate(op, p, args, at) ==
    CASE op = "recordOutcome" -> recordOutcomeOn(p, args.contactId, args.value, at)
      [] op = "clearMissedOutcomes" -> clearMissedOutcomesOn(p)
      [] op = "recordSurveyResponse" -> recordSurveyResponseOn(p, args.contactId, args.value, at)
      [] op = "clearSurveyResponse" -> clearSurveyResponseOn(p, args.contactId)

InitWrite ==
    /\ storage = <<>>
    /\ now = 1
    /\ thrown = NoThrow
    /\ picked = NoPick
    /\ Mounted(<<>>)
    /\ Editing(<<>>, <<>>)
    /\ exported = NoExport
    /\ call = NoCall

\* the operation is called
BeginCall(op, campaignId, args) ==
    /\ call.stage \in {"none", "returned", "thrown"}
    /\ op \in {"recordOutcome", "recordSurveyResponse"} /\ storageKey(campaignId) \in DOMAIN storage
          => Entries(storage[storageKey(campaignId)]) < MaxEntries
    /\ call' = Call(op, campaignId, args, "getItem", storage, Null, 0)
    /\ UNCHANGED <<storage, now, thrown, picked, screen, roster, exported>>

\* await AsyncStorage.getItem(...) rejects
GetItemRejects ==
    /\ call.stage = "getItem"
    /\ call' = [call EXCEPT !.stage = "thrown"]
    /\ thrown' = Throw(call.op, call.campaignId, StoreRejected)
    /\ UNCHANGED <<storage, now, picked, screen, roster, exported>>

GetItemResolves_SavesEarly ==
    /\ call.stage = "getItem"
    /\ LET key == storageKey(call.campaignId) IN
       IF call.op = "loadOrInitProgress"
       THEN LET p == loadOrInitProgress(storage, call.campaignId, call.args.contactIds) IN
            /\ call' = [call EXCEPT !.stage = "setItem", !.p = p, !.writes = @ + 1]
            /\ storage' = setItem(storage, key, p)
            /\ UNCHANGED thrown
       ELSE IF key \notin DOMAIN storage
       THEN /\ call' = [call EXCEPT !.stage = "thrown"]
            /\ thrown' = Throw(call.op, call.campaignId, NotInitialized)
            /\ UNCHANGED storage
       ELSE /\ call' = [call EXCEPT !.stage = "setItem",
                                    !.p = mutate(call.op, storage[key], call.args, now)]
            /\ UNCHANGED <<storage, thrown>>
    /\ UNCHANGED <<now, picked, screen, roster, exported>>

\* await AsyncStorage.getItem(...) resolves: the snapshot is parsed and
\* changed in memory, or the call throws 'Progress not initialized'
GetItemResolves ==
    /\ call.stage = "getItem"
    /\ LET key == storageKey(call.campaignId) IN
       IF call.op = "loadOrInitProgress"
       THEN /\ call' = [call EXCEPT !.stage = "setItem",
                                    !.p = loadOrInitProgress(storage, call.campaignId,
                                                             call.args.contactIds)]
            /\ UNCHANGED thrown
       ELSE IF key \notin DOMAIN storage
       THEN /\ call' = [call EXCEPT !.stage = "thrown"]
            /\ thrown' = Throw(call.op, call.campaignId, NotInitialized)
       ELSE /\ call' = [call EXCEPT !.stage = "setItem",
                                    !.p = mutate(call.op, storage[key], call.args, now)]
            /\ UNCHANGED thrown
    /\ UNCHANGED <<storage, now, picked, screen, roster, exported>>

\* await AsyncStorage.setItem(...) rejects: nothing was stored
SetItemRejects ==
    /\ call.stage = "setItem"
    /\ call' = [call EXCEPT !.stage = "thrown"]
    /\ thrown' = Throw(call.op, call.campaignId, StoreRejected)
    /\ UNCHANGED <<storage, now, picked, screen, roster, exported>>

\* await AsyncStorage.setItem(...) resolves, and the call returns p
SetItemResolves ==
    /\ call.stage = "setItem"
    /\ storage' = setItem(storage, storageKey(call.campaignId), call.p)
    /\ call' = [call EXCEPT !.stage = "returned", !.writes = @ + 1]
    /\ thrown' = NoThrow
    /\ UNCHANGED <<now, picked, screen, roster, exported>>

NextWrite ==
    \/ \E op \in MutatingOps, c \in CampaignIds : \E args \in ArgsOf(op) : BeginCall(op, c, args)
    \/ GetItemRejects
    \/ GetItemResolves
    \/ SetItemRejects
    \/ SetItemResolves

SpecWrite == InitWrite /\ [][NextWrite]_vars

\* ------------------------------------- a pass, for as long as it goes on
\* The operator goes on for as long as a card is shown, so nothing bounds
\* the number of recordings.  The histories only grow and the navigator
\* never reads them (pickNextId reads attempts === 0 and outcome): here each
\* call history is followed up to its last MaxFollowed entries, the attempts
\* up to MaxFollowed, each survey history up to its last entry and the
\* presentations up to one more than the queue is long, so that a pass that
\* goes on for ever is a cycle of states.
lastEntries(log) == IF Len(log) > MaxFollowed THEN Tail(log) ELSE log

followed(p) ==
    [p EXCEPT !.contacts =
        [k \in DOMAIN p.contacts |->
            [p.contacts[k] EXCEPT
                !.attempts = IF @ > MaxFollowed THEN MaxFollowed ELSE @,
                !.logs = lastEntries(@),
                !.surveyLogs = IF Len(@) > 1 THEN Tail(@) ELSE @]]]

lastPresented(shown, ids) == IF Len(shown) > Len(ids) + 1 THEN Tail(shown) ELSE shown

InitPass ==
    /\ storage = <<>>
    /\ now = 1
    /\ thrown = NoThrow
    /\ picked = NoPick
    /\ \E q \in QueueLists : Mounted(q)
    /\ Editing(<<>>, <<>>)
    /\ exported = NoExport
    /\ call = NoCall

\* onSelectSurvey, with no bound on the entries
SelectSurvey(campaignId, answer) ==
    LET key == storageKey(campaignId) IN
    /\ CardShown
    /\ inflight = NoAdvance
    /\ key \in DOMAIN storage
    /\ storage' = setItem(storage, key,
                          followed(recordSurveyResponseOn(storage[key], currentId, answer, now)))
    /\ thrown' = NoThrow
    /\ UNCHANGED <<call, exported, roster, now, picked, screen>>

\* onOutcome, with no bound on the entries
RecordAndAdvance(campaignId, outcome) ==
    LET key == storageKey(campaignId) IN
    /\ CardShown
    /\ inflight = NoAdvance
    /\ key \in DOMAIN storage
    /\ LET p == followed(recordOutcomeOn(storage[key], currentId, outcome, now)) IN
          /\ storage' = setItem(storage, key, p)
          /\ progress' = p
    /\ inflight' = Advance(passStrategy, IF passStrategy = "missed" THEN currentId ELSE Unset)
    /\ presented' = lastPresented(presented, queueIds)
    /\ thrown' = NoThrow
    /\ UNCHANGED <<passStart, call, exported, roster, now, picked, queueIds, mode, currentId,
                   passStrategy, finished>>

Resolves == \E c \in CampaignIds : AdvanceDone(c)

Records == \E c \in CampaignIds, o \in CallOutcome : RecordAndAdvance(c, o)

NextPass ==
    \/ \E c \in CampaignIds : Mount(c)
    \/ \E c \in CampaignIds : BeginCalls(c)
    \/ Resolves
    \/ Records
    \/ \E c \in CampaignIds, a \in Answers : SelectSurvey(c, a)
    \/ \E c \in CampaignIds : BeginMissed(c)
    \/ OnDone

\* the promise advance awaits resolves, and the operator records an outcome
\* for the contact a card presents
SpecPass ==
    /\ InitPass
    /\ [][NextPass]_vars
    /\ WF_vars(Resolves)
    /\ WF_vars(Records)

\* ----------------------------------------------- a run left and resumed
\* The screen is left at any point and opened again on the same campaign
\* and queue: a new instance, with the state of its first render, on the
\* store the run left.  An advance the old instance was awaiting still
\* resolves, and its loadOrInitProgress writes the snapshot it read back.
Reenter_StartsOver(campaignId) ==
    /\ mode # "idle"
    /\ storage' = removeItem(storage, storageKey(campaignId))
    /\ progress' = Null
    /\ mode' = "idle"
    /\ currentId' = Unset
    /\ passStrategy' = "unattempted"
    /\ inflight' = NoAdvance
    /\ presented' = <<>>
    /\ finished' = FALSE
    /\ passStart' = NoPass
    /\ thrown' = NoThrow
    /\ UNCHANGED <<call, exported, roster, now, picked, queueIds>>

Reenter(campaignId) ==
    /\ mode # "idle"
    /\ storage' = IF inflight = NoAdvance THEN storage
                  ELSE setItem(storage, storageKey(campaignId),
                               loadOrInitProgress(storage, campaignId, queueIds))
    /\ progress' = Null
    /\ mode' = "idle"
    /\ currentId' = Unset
    /\ passStrategy' = "unattempted"
    /\ inflight' = NoAdvance
    /\ presented' = <<>>
    /\ finished' = FALSE
    /\ passStart' = NoPass
    /\ thrown' = NoThrow
    /\ UNCHANGED <<call, exported, roster, now, picked, queueIds>>

InitResume ==
    /\ storage = <<>>
    /\ now = 1
    /\ thrown = NoThrow
    /\ picked = NoPick
    /\ \E q \in QueueLists : Mounted(q)
    /\ Editing(<<>>, <<>>)
    /\ exported = NoExport
    /\ call = NoCall

NextResume ==
    \/ NextRun
    \/ \E c \in CampaignIds : Reenter(c)

SpecResume == InitResume /\ [][NextResume]_vars

\* ------------------------------------------- two handlers, await by await
\* onSelectSurvey and onOutcome of one screen, each followed from one await
\* of AsyncStorage to the next.  Nothing keeps a handler from being called
\* while the other one is awaiting: call holds the two of them, the contact
\* and the argument each was called with, the snapshot each holds in memory,
\* and whether one was called while the other was in flight.
Handler(stage, contactId, arg, p) ==
    [stage |-> stage, contactId |-> contactId, arg |-> arg, p |-> p]

NotCalled == Handler("none", Unset, Unset, Null)

Handlers(survey, outcome, overlapped) ==
    [stage |-> "handlers", survey |-> survey, outcome |-> outcome, overlapped |-> overlapped]

InFlight(h) == h.stage \notin {"none", "done"}

\* the first card of a run: Begin Calls has been pressed on a queue that is
\* not empty and its advance has resolved
InitOverlap ==
    \E c \in CampaignIds, q \in QueueLists \ {<<>>} :
        LET p == loadOrInitProgress(<<>>, c, q)
            first == pickNextId(q, p, "unattempted", Unset)
        IN /\ storage = setItem(<<>>, storageKey(c), p)
           /\ now = 1
           /\ thrown = NoThrow
           /\ picked = Pick(q, "unattempted", Unset, first)
           /\ queueIds = q
           /\ progress = p
           /\ mode = "running"
           /\ currentId = first
           /\ passStrategy = "unattempted"
           /\ inflight = NoAdvance
           /\ presented = <<first>>
           /\ finished = FALSE
           /\ passStart = Pass("unattempted", EligibleIds(q, <<>>, c, "unattempted"))
           /\ Editing(<<>>, <<>>)
           /\ exported = NoExport
           /\ call = Handlers(NotCalled, NotCalled, FALSE)

\* onSelectSurvey is called: if (!currentId) return
SurveyCalled(answer) ==
    /\ call.survey.stage = "none"
    /\ CardShown
    /\ call' = [call EXCEPT !.survey = Handler("getItem", currentId, answer, Null),
                            !.overlapped = @ \/ InFlight(call.outcome)]
    /\ UNCHANGED <<storage, now, thrown, picked, screen, roster, exported>>

\* recordSurveyResponse: getItem resolves; the entry is pushed in memory
SurveyRead(campaignId) ==
    LET h == call.survey
        key == storageKey(campaignId) IN
    /\ h.stage = "getItem"
    /\ key \in DOMAIN storage
    /\ call' = [call EXCEPT !.survey =
                   Handler("setItem", h.contactId, h.arg,
                           recordSurveyResponseOn(storage[key], h.contactId, h.arg, now))]
    /\ UNCHANGED <<storage, now, thrown, picked, screen, roster, exported>>

\* recordSurveyResponse: saveProgress resolves
SurveyWritten(campaignId) ==
    LET h == call.survey IN
    /\ h.stage = "setItem"
    /\ storage' = setItem(storage, storageKey(campaignId), h.p)
    /\ call' = [call EXCEPT !.survey.stage = "done"]
    /\ UNCHANGED <<now, thrown, picked, screen, roster, exported>>

\* onOutcome is called: if (!currentId) return
OutcomeCalled(outcome) ==
    /\ call.outcome.stage = "none"
    /\ CardShown
    /\ call' = [call EXCEPT !.outcome = Handler("getItem", currentId, outcome, Null),
                            !.overlapped = @ \/ InFlight(call.survey)]
    /\ UNCHANGED <<storage, now, thrown, picked, screen, roster, exported>>

\* recordOutcome: getItem resolves; the entry is pushed in memory
OutcomeRead(campaignId) ==
    LET h == call.outcome
        key == storageKey(campaignId) IN
    /\ h.stage = "getItem"
    /\ key \in DOMAIN storage
    /\ call' = [call EXCEPT !.outcome =
                   Handler("setItem", h.contactId, h.arg,
                           recordOutcomeOn(storage[key], h.contactId, h.arg, now))]
    /\ UNCHANGED <<storage, now, thrown, picked, screen, roster, exported>>

\* recordOutcome: saveProgress resolves; setProgress(p); advance is called
OutcomeWritten(campaignId) ==
    LET h == call.outcome IN
    /\ h.stage = "setItem"
    /\ storage' = setItem(storage, storageKey(campaignId), h.p)
    /\ progress' = h.p
    /\ inflight' = Advance(passStrategy, IF passStrategy = "missed" THEN h.contactId ELSE Unset)
    /\ call' = [call EXCEPT !.outcome = Handler("loadGetItem", h.contactId, h.arg, Null)]
    /\ UNCHANGED <<passStart, roster, exported, now, thrown, picked, queueIds, mode, currentId,
                   passStrategy, presented, finished>>

\* advance: the getItem of loadOrInitProgress resolves; the backfill
AdvanceRead(campaignId) ==
    LET h == call.outcome IN
    /\ h.stage = "loadGetItem"
    /\ call' = [call EXCEPT !.outcome =
                   Handler("loadSetItem", h.contactId, h.arg,
                           loadOrInitProgress(storage, campaignId, queueIds))]
    /\ UNCHANGED <<storage, now, thrown, picked, screen, roster, exported>>

\* advance: the setItem of loadOrInitProgress resolves; setProgress,
\* pickNextId, setCurrentId, setMode
AdvanceWritten(campaignId) ==
    LET h == call.outcome
        nextId == pickNextId(queueIds, h.p, inflight.strategy, inflight.skipId) IN
    /\ h.stage = "loadSetItem"
    /\ storage' = setItem(storage, storageKey(campaignId), h.p)
    /\ progress' = h.p
    /\ picked' = Pick(queueIds, inflight.strategy, inflight.skipId, nextId)
    /\ currentId' = nextId
    /\ mode' = IF nextId = Unset THEN "summary" ELSE mode
    /\ presented' = IF nextId = Unset THEN presented ELSE Append(presented, nextId)
    /\ inflight' = NoAdvance
    /\ call' = [call EXCEPT !.outcome.stage = "done"]
    /\ UNCHANGED <<passStart, roster, exported, now, thrown, queueIds, passStrategy, finished>>

NextOverlap ==
    \/ \E a \in Answers : SurveyCalled(a)
    \/ \E c \in CampaignIds : SurveyRead(c)
    \/ \E c \in CampaignIds : SurveyWritten(c)
    \/ \E o \in CallOutcome : OutcomeCalled(o)
    \/ \E c \in CampaignIds : OutcomeRead(c)
    \/ \E c \in CampaignIds : OutcomeWritten(c)
    \/ \E c \in CampaignIds : AdvanceRead(c)
    \/ \E c \in CampaignIds : AdvanceWritten(c)

SpecOverlap == InitOverlap /\ [][NextOverlap]_vars

\* ===================================================== the properties
Has(c) == storageKey(c) \in DOMAIN storage

Snap(c) == storage[storageKey(c)]

IsPrefix(s, t) == Len(s) <= Len(t) /\ SubSeq(t, 1, Len(s)) = s

\* the progress of a contact as a caller sees it: a contact the snapshot does
\* not hold has no attempts, no outcome and empty histories
ProgressOf(p, id) ==
    IF id \in DOMAIN p.contacts THEN p.contacts[id]
    ELSE [contactId |-> id, attempts |-> 0, outcome |-> Unset, lastCalledAt |-> NoTime,
          logs |-> <<>>, surveyAnswer |-> Unset, surveyLogs |-> <<>>]

\* C1: in every persisted snapshot, totals.made is the number of contacts
\* whose outcome is set, totals.answered the number with outcome 'answered',
\* totals.missed the number with outcome 'no_answer', and
\* answered + missed = made.
C1_TotalsCountOutcomes ==
    \A c \in CampaignIds : Has(c) =>
        LET p == Snap(c)
            withOutcome(S) == {k \in DOMAIN p.contacts : p.contacts[k].outcome \in S}
        IN /\ p.totals.made = Cardinality(withOutcome(CallOutcome))
           /\ p.totals.answered = Cardinality(withOutcome({"answered"}))
           /\ p.totals.missed = Cardinality(withOutcome({"no_answer"}))
           /\ p.totals.answered + p.totals.missed = p.totals.made
           /\ \A k \in DOMAIN p.contacts : p.contacts[k].outcome \in CallOutcome \cup {Unset}

\* one answered contact is left after a missed one was cleared
C1_Witness ==
    \E c \in CampaignIds :
        /\ Has(c)
        /\ Snap(c).totals.made = 1
        /\ Snap(c).totals.answered = 1
        /\ \E k \in DOMAIN Snap(c).contacts :
              Snap(c).contacts[k].outcome = Unset /\ Snap(c).contacts[k].attempts = 1

\* C2 (as claimed): in every persisted snapshot totals.total equals the
\* number of entries in contacts.
C2_TotalEqualsContacts ==
    \A c \in CampaignIds : Has(c) =>
        Snap(c).totals.total = Cardinality(DOMAIN Snap(c).contacts)

\* C3: loadOrInit is idempotent: from any store state and for any queue
\* list, the store after two calls in a row equals the store after one.
C3_LoadOrInitIdempotent ==
    \A c \in CampaignIds, q \in QueueLists :
        LET once  == setItem(storage, storageKey(c), loadOrInitProgress(storage, c, q))
            twice == setItem(once, storageKey(c), loadOrInitProgress(once, c, q))
        IN twice = once

\* loadOrInit has run on a snapshot that holds a called contact and a zeroed one
C3_Witness ==
    \E c \in CampaignIds :
        /\ Has(c)
        /\ \E k \in DOMAIN Snap(c).contacts : Snap(c).contacts[k].attempts = 2
        /\ \E k \in DOMAIN Snap(c).contacts : Snap(c).contacts[k].attempts = 0

\* C4: loadOrInit on an existing snapshot leaves every contact already there
\* and totals.made/answered/missed as they were, adds one zeroed
\* ContactProgress for each distinct queue id not yet present, and raises
\* totals.total by the number of ids added: stated of the snapshot the call
\* persists, from every reachable store state and for every queue list.
C4_BackfillFrame ==
    \A c \in CampaignIds, q \in QueueLists :
        Has(c) =>
            LET p == Snap(c)
                r == setItem(storage, storageKey(c),
                             loadOrInitProgress(storage, c, q))[storageKey(c)]
                added == Range(q) \ DOMAIN p.contacts
            IN /\ DOMAIN r.contacts = DOMAIN p.contacts \cup Range(q)
               /\ \A k \in DOMAIN p.contacts : r.contacts[k] = p.contacts[k]
               /\ \A k \in added :
                     /\ r.contacts[k].contactId = k
                     /\ r.contacts[k].attempts = 0
                     /\ r.contacts[k].outcome = Unset
                     /\ r.contacts[k].lastCalledAt = NoTime
                     /\ r.contacts[k].logs = <<>>
                     /\ r.contacts[k].surveyAnswer = Unset
                     /\ r.contacts[k].surveyLogs = <<>>
               /\ r.totals.made = p.totals.made
               /\ r.totals.answered = p.totals.answered
               /\ r.totals.missed = p.totals.missed
               /\ r.totals.total = p.totals.total + Cardinality(added)
               /\ r.completed = p.completed

\* a backfilled snapshot: one contact with a call and a survey answer, one
\* zeroed, and a total above the one contact the snapshot started with
C4_Witness ==
    \E c \in CampaignIds :
        /\ Has(c)
        /\ Snap(c).totals.total = 2
        /\ Snap(c).totals.made = 1
        /\ \E k \in DOMAIN Snap(c).contacts :
              /\ Snap(c).contacts[k].attempts = 1
              /\ Snap(c).contacts[k].surveyAnswer # Unset
        /\ \E k \in DOMAIN Snap(c).contacts :
              /\ Snap(c).contacts[k].attempts = 0
              /\ Snap(c).contacts[k].surveyLogs = <<>>

\* C5: recordOutcome, recordSurveyResponse and getSummary on a campaign with
\* no stored snapshot fail with 'Progress not initialized' and write nothing.
C5_NotInitializedWritesNothing ==
    [][\A c \in CampaignIds :
          (/\ ~Has(c)
           /\ \/ \E id \in Ids, o \in CallOutcome : RecordOutcome(c, id, o)
              \/ \E id \in Ids, a \in Answers : RecordSurveyResponse(c, id, a)
              \/ GetSummary(c))
          => /\ thrown'.error = NotInitialized
             /\ thrown'.campaignId = c
             /\ storage' = storage
             /\ storageKey(c) \notin DOMAIN storage'
      ]_vars

\* a survey response was refused and the store holds nothing
C5_Witness ==
    /\ thrown.op = "recordSurveyResponse"
    /\ thrown.error = NotInitialized
    /\ storage = <<>>

\* C6: recordOutcome on an initialized campaign raises the contact's attempts
\* by one, sets its outcome, appends one CallLogEntry {at, outcome} whose at
\* is the new lastCalledAt, and leaves the other contacts and the contact's
\* surveyAnswer and surveyLogs as they were.
C6_RecordOutcomeEffect ==
    [][\A c \in CampaignIds, id \in Ids, o \in CallOutcome :
          (Has(c) /\ RecordOutcome(c, id, o)) =>
              LET p == Snap(c)
                  r == storage'[storageKey(c)]
                  before == ProgressOf(p, id)
                  after == r.contacts[id]
              IN /\ thrown' = NoThrow
                 /\ DOMAIN r.contacts = DOMAIN p.contacts \cup {id}
                 /\ after.attempts = before.attempts + 1
                 /\ after.outcome = o
                 /\ after.lastCalledAt = now
                 /\ Len(after.logs) = Len(before.logs) + 1
                 /\ SubSeq(after.logs, 1, Len(before.logs)) = before.logs
                 /\ after.logs[Len(after.logs)] = [at |-> after.lastCalledAt, outcome |-> o]
                 /\ after.surveyAnswer = before.surveyAnswer
                 /\ after.surveyLogs = before.surveyLogs
                 /\ \A k \in DOMAIN p.contacts \ {id} : r.contacts[k] = p.contacts[k]
      ]_vars

\* a second call of one contact was recorded, later and with another outcome
C6_Witness ==
    \E c \in CampaignIds :
        /\ Has(c)
        /\ thrown = NoThrow
        /\ \E k \in DOMAIN Snap(c).contacts :
              LET x == Snap(c).contacts[k] IN
              /\ x.attempts = 2
              /\ Len(x.logs) = 2
              /\ x.logs[1].outcome # x.logs[2].outcome
              /\ x.logs[1].at < x.logs[2].at
              /\ x.lastCalledAt = now

\* C7: recordSurveyResponse leaves the four totals and every contact's
\* attempts, outcome, lastCalledAt and logs as they were; it sets the
\* contact's surveyAnswer and appends one SurveyLogEntry with that answer.
C7_SurveyResponseFrame ==
    [][\A c \in CampaignIds, id \in Ids, a \in Answers :
          (Has(c) /\ RecordSurveyResponse(c, id, a)) =>
              LET p == Snap(c)
                  r == storage'[storageKey(c)]
                  before == ProgressOf(p, id)
                  after == r.contacts[id]
              IN /\ thrown' = NoThrow
                 /\ r.totals = p.totals
                 /\ DOMAIN r.contacts = DOMAIN p.contacts \cup {id}
                 /\ after.attempts = before.attempts
                 /\ after.outcome = before.outcome
                 /\ after.lastCalledAt = before.lastCalledAt
                 /\ after.logs = before.logs
                 /\ after.surveyAnswer = a
                 /\ Len(after.surveyLogs) = Len(before.surveyLogs) + 1
                 /\ SubSeq(after.surveyLogs, 1, Len(before.surveyLogs)) = before.surveyLogs
                 /\ after.surveyLogs[Len(after.surveyLogs)].answer = a
                 /\ \A k \in DOMAIN p.contacts \ {id} : r.contacts[k] = p.contacts[k]
      ]_vars

\* a survey answer was recorded for a contact that has a recorded call
C7_Witness ==
    \E c \in CampaignIds :
        /\ Has(c)
        /\ thrown = NoThrow
        /\ Snap(c).totals.made = 1
        /\ \E k \in DOMAIN Snap(c).contacts :
              /\ Snap(c).contacts[k].attempts = 1
              /\ Snap(c).contacts[k].surveyAnswer \in Answers
              /\ Len(Snap(c).contacts[k].surveyLogs) = 1

\* the last entry of a history, seen through the field f of an entry
LastOf(log, f, none) == IF log = <<>> THEN none ELSE log[Len(log)][f]

C9_LogsAppendOnly ==
    [][\A c \in CampaignIds :
          (storage' # storage /\ Has(c) /\ storageKey(c) \in DOMAIN storage') =>
              \A k \in DOMAIN Snap(c).contacts :
                  /\ k \in DOMAIN storage'[storageKey(c)].contacts
                  /\ IsPrefix(Snap(c).contacts[k].logs,
                              storage'[storageKey(c)].contacts[k].logs)
                  /\ IsPrefix(Snap(c).contacts[k].surveyLogs,
                              storage'[storageKey(c)].contacts[k].surveyLogs)
      ]_vars

\* a survey answer was cleared and its history entry is still there, next to
\* a call history entry
C9_Witness ==
    \E c \in CampaignIds :
        /\ Has(c)
        /\ thrown = NoThrow
        /\ \E k \in DOMAIN Snap(c).contacts :
              /\ Snap(c).contacts[k].surveyAnswer = Unset
              /\ Len(Snap(c).contacts[k].surveyLogs) = 1
              /\ Len(Snap(c).contacts[k].logs) = 1

\* C10: pickNextId with strategy 'unattempted' returns the first id of
\* queueIds that differs from skipId and whose ContactProgress is absent or
\* has attempts = 0, and returns undefined exactly when there is no such id.
C10_PickUnattempted ==
    [][\A c \in CampaignIds :
          (picked' # picked /\ picked.strategy = "unattempted" /\ PickNext(c)) =>
              LET q == picked.queueIds
                  p == Snap(c)
                  Eligible(i) ==
                      /\ q[i] # picked.skipId
                      /\ (q[i] \notin DOMAIN p.contacts \/ p.contacts[q[i]].attempts = 0)
              IN IF \E i \in 1..Len(q) : Eligible(i)
                 THEN \E i \in 1..Len(q) :
                         /\ Eligible(i)
                         /\ \A j \in 1..(i - 1) : ~Eligible(j)
                         /\ picked'.result = q[i]
                 ELSE picked'.result = Unset
      ]_vars

\* the first queue id is the skipId and the second one was returned
C10_Witness ==
    /\ picked.strategy = "unattempted"
    /\ Len(picked.queueIds) = 2
    /\ picked.skipId = picked.queueIds[1]
    /\ picked.queueIds[1] # picked.queueIds[2]
    /\ picked.result = picked.queueIds[2]

\* nothing was left to pick in a queue of two although nothing was skipped
C10_WitnessNone ==
    /\ picked.strategy = "unattempted"
    /\ Len(picked.queueIds) = 2
    /\ picked.skipId = Unset
    /\ picked.result = Unset

\* C11: pickNextId with strategy 'missed' returns the first id of queueIds
\* that differs from skipId and whose ContactProgress has outcome 'no_answer',
\* and returns undefined exactly when there is no such id.
C11_PickMissed ==
    [][\A c \in CampaignIds :
          (picked' # picked /\ picked.strategy = "missed" /\ PickNext(c)) =>
              LET q == picked.queueIds
                  p == Snap(c)
                  Eligible(i) ==
                      /\ q[i] # picked.skipId
                      /\ q[i] \in DOMAIN p.contacts
                      /\ p.contacts[q[i]].outcome = "no_answer"
              IN IF \E i \in 1..Len(q) : Eligible(i)
                 THEN \E i \in 1..Len(q) :
                         /\ Eligible(i)
                         /\ \A j \in 1..(i - 1) : ~Eligible(j)
                         /\ picked'.result = q[i]
                 ELSE picked'.result = Unset
      ]_vars

\* both queue ids are missed, the first one is the skipId and the second one
\* was returned
C11_Witness ==
    /\ picked.strategy = "missed"
    /\ Len(picked.queueIds) = 2
    /\ picked.skipId = picked.queueIds[1]
    /\ picked.queueIds[1] # picked.queueIds[2]
    /\ picked.result = picked.queueIds[2]
    /\ \E c \in CampaignIds :
          /\ Has(c)
          /\ \A i \in 1..2 : ProgressOf(Snap(c), picked.queueIds[i]).outcome = "no_answer"

\* an answered contact is passed over: nothing is returned although the
\* queue holds a called contact and nothing was skipped
C11_WitnessNone ==
    /\ picked.strategy = "missed"
    /\ picked.skipId = Unset
    /\ picked.result = Unset
    /\ \E c \in CampaignIds :
          /\ Has(c)
          /\ \E i \in 1..Len(picked.queueIds) :
                ProgressOf(Snap(c), picked.queueIds[i]).outcome = "answered"

\* the ids of a queue in the order of their first occurrence
RECURSIVE FirstOccurrences(_)
FirstOccurrences(ids) ==
    IF ids = <<>> THEN <<>>
    ELSE LET front == FirstOccurrences(SubSeq(ids, 1, Len(ids) - 1))
             last == ids[Len(ids)]
         IN IF last \in Range(front) THEN front ELSE Append(front, last)

\* the unattempted pass of a run: under way, or ended in the summary
InFirstPass == passStrategy = "unattempted" /\ mode \in {"running", "summary"}

\* C12 (as claimed): in an unattempted pass started on a freshly initialised
\* campaign the contacts are presented in queue order, each exactly once,
\* whatever outcomes are recorded; when the last one is recorded nothing is
\* left to pick, the run is in the summary and totals.made = totals.total.
\* For the queue [a, b, c] with answered, no_answer, answered the order is
\* a, b, c and the totals are {total: 3, made: 3, answered: 2, missed: 1}.
C12_UnattemptedPass ==
    \A c \in CampaignIds : InFirstPass =>
        /\ IsPrefix(presented, FirstOccurrences(queueIds))
        /\ (mode = "summary") =>
              /\ Has(c)
              /\ presented = FirstOccurrences(queueIds)
              /\ \A i \in 1..Len(queueIds) :
                    ProgressOf(Snap(c), queueIds[i]).attempts > 0
              /\ Snap(c).totals.made = Snap(c).totals.total
        /\ ( /\ mode = "summary"
             /\ queueIds = <<"a", "b", "c">>
             /\ ProgressOf(Snap(c), "a").outcome = "answered"
             /\ ProgressOf(Snap(c), "b").outcome = "no_answer"
             /\ ProgressOf(Snap(c), "c").outcome = "answered" ) =>
              /\ presented = <<"a", "b", "c">>
              /\ Snap(c).totals = [total |-> 3, made |-> 3, answered |-> 2, missed |-> 1]

\* C13: in a missed pass, when the only contact with outcome 'no_answer' is
\* presented and recorded as 'answered', the advance that follows, with that
\* contact as skipId, finds no id and the run goes to the summary with
\* totals.missed = 0.  With a = answered, b = no_answer, c = answered the
\* missed pass presents b.
C13_LastMissedAnswered ==
    [][\A c \in CampaignIds :
          /\ ( /\ AdvanceDone(c)
               /\ inflight.strategy = "missed"
               /\ inflight.skipId # Unset
               /\ ProgressOf(Snap(c), inflight.skipId).outcome = "answered"
               /\ \A k \in DOMAIN Snap(c).contacts :
                     Snap(c).contacts[k].outcome # "no_answer" ) =>
                 /\ picked' = Pick(queueIds, "missed", inflight.skipId, Unset)
                 /\ currentId' = Unset
                 /\ mode' = "summary"
                 /\ storage'[storageKey(c)].totals.missed = 0
          /\ ( /\ AdvanceDone(c)
               /\ inflight = Advance("missed", Unset)
               /\ queueIds = <<"a", "b", "c">>
               /\ ProgressOf(Snap(c), "a").outcome = "answered"
               /\ ProgressOf(Snap(c), "b").outcome = "no_answer"
               /\ ProgressOf(Snap(c), "c").outcome = "answered" ) =>
                 /\ currentId' = "b"
                 /\ mode' = "missed"
      ]_vars

\* the scenario has run to its end: b was missed in the first pass, answered
\* in the missed pass, and the advance that skipped b found nothing
C13_Witness ==
    \E c \in CampaignIds :
        /\ queueIds = <<"a", "b", "c">>
        /\ mode = "summary"
        /\ passStrategy = "missed"
        /\ presented = <<"b">>
        /\ picked = Pick(queueIds, "missed", "b", Unset)
        /\ Has(c)
        /\ Snap(c).contacts["b"].logs[1].outcome = "no_answer"
        /\ Snap(c).contacts["b"].outcome = "answered"
        /\ Snap(c).totals = [total |-> 3, made |-> 3, answered |-> 3, missed |-> 0]

\* what a strategy selects: a contact that is not the skipId and, for
\* 'unattempted', has no attempt, for 'missed', has the outcome 'no_answer'
Selects(p, strategy, skipId, id) ==
    /\ id # skipId
    /\ IF strategy = "unattempted" THEN ProgressOf(p, id).attempts = 0
       ELSE ProgressOf(p, id).outcome = "no_answer"

\* C14: advance(strategy, skipId) selects against the snapshot that is
\* persisted, reloaded at its start, not against the in-memory copy: the
\* first queue id the strategy selects in the persisted snapshot becomes the
\* presented contact and the mode is unchanged; if there is none the
\* presented contact becomes undefined and the mode becomes 'summary'.
C14_AdvanceUsesPersisted ==
    [][\A c \in CampaignIds : AdvanceDone(c) =>
          LET p == storage'[storageKey(c)]
              E == {i \in 1..Len(queueIds) :
                       Selects(p, inflight.strategy, inflight.skipId, queueIds[i])}
          IN /\ Has(c) => \A k \in DOMAIN Snap(c).contacts : p.contacts[k] = Snap(c).contacts[k]
             /\ progress' = p
             /\ IF E = {}
                THEN currentId' = Unset /\ mode' = "summary"
                ELSE /\ \E i \in E : currentId' = queueIds[i] /\ \A j \in E : i <= j
                     /\ mode' = mode
      ]_vars

\* an advance of a missed pass has presented a contact and left the mode
C14_Witness ==
    \E c \in CampaignIds :
        /\ inflight = NoAdvance
        /\ mode = "missed"
        /\ picked.strategy = "missed"
        /\ picked.skipId # Unset
        /\ currentId = picked.result
        /\ currentId # Unset
        /\ Has(c)
        /\ progress = Snap(c)

\* an advance of the first pass found nothing and went to the summary
C14_WitnessSummary ==
    /\ inflight = NoAdvance
    /\ mode = "summary"
    /\ picked.strategy = "unattempted"
    /\ picked.result = Unset
    /\ currentId = Unset
    /\ Len(presented) = 2

\* C15: during a missed pass the contact presented right after an outcome
\* is recorded is never the contact just processed, even when its outcome is
\* 'no_answer' again; during an unattempted pass no skipId is passed.
C15_MissedPassSkipsCurrent ==
    [][\A c \in CampaignIds :
          /\ (\E o \in CallOutcome : OnOutcome(c, o)) =>
                inflight' = Advance(IF mode = "missed" THEN "missed" ELSE "unattempted",
                                    IF mode = "missed" THEN currentId ELSE Unset)
          /\ (AdvanceDone(c) /\ mode = "missed" /\ currentId # Unset) =>
                /\ picked'.skipId = currentId
                /\ currentId' # currentId
          /\ (AdvanceDone(c) /\ mode = "running") => picked'.skipId = Unset
      ]_vars

\* b was presented in a missed pass and recorded 'no_answer' again; the
\* advance skipped it and found nothing else
C15_Witness ==
    \E c \in CampaignIds :
        /\ inflight = NoAdvance
        /\ passStrategy = "missed"
        /\ picked = Pick(queueIds, "missed", "b", Unset)
        /\ Has(c)
        /\ Snap(c).contacts["b"].outcome = "no_answer"
        /\ Snap(c).contacts["b"].attempts = 2
        /\ currentId = Unset

\* two contacts are missed: after the first is recorded 'no_answer' again the
\* missed pass presents the second
C15_WitnessNext ==
    \E c \in CampaignIds :
        /\ inflight = NoAdvance
        /\ mode = "missed"
        /\ Len(presented) = 2
        /\ picked.skipId = presented[1]
        /\ currentId = presented[2]
        /\ Has(c)
        /\ Snap(c).contacts[presented[1]].outcome = "no_answer"
        /\ Snap(c).contacts[presented[1]].attempts = 2

\* the transitions of the run state machine, with the strategy of the pass
\* they begin
ModeTransitions ==
    {<<"idle", "running">>, <<"running", "summary">>, <<"summary", "missed">>,
     <<"missed", "summary">>}

\* C16: the mode changes only idle -> running (begin calls, strategy
\* 'unattempted'), running -> summary, summary -> missed (retry missed,
\* strategy 'missed') and missed -> summary; there is no other transition,
\* and the run can only be finished (onDone) from the summary.
C16_ModeTransitions ==
    [][/\ mode' # mode =>
            /\ <<mode, mode'>> \in ModeTransitions
            /\ mode' = "running" => inflight' = Advance("unattempted", Unset)
                                      /\ passStrategy' = "unattempted"
            /\ mode' = "missed" => inflight' = Advance("missed", Unset)
                                     /\ passStrategy' = "missed"
       /\ (finished' /\ ~finished) => mode = "summary" /\ mode' = "summary"
      ]_vars

\* a run went through every transition and was finished from the summary
C16_Witness ==
    /\ finished
    /\ mode = "summary"
    /\ passStrategy = "missed"
    /\ picked.strategy = "missed"
    /\ picked.skipId # Unset

\* ------------------------------------------------ the filter, in words
\* the text of a cell: the empty string when the record has no such field
Text(row, field) == IF field \in DOMAIN row THEN row[field] ELSE <<>>

SameIgnoringCase(str, other) ==
    /\ Len(str) = Len(other)
    /\ \A i \in 1..Len(str) : LowerChar(str[i]) = LowerChar(other[i])

ContainsIgnoringCase(str, sub) ==
    \E k \in 0..(Len(str) - Len(sub)) :
        \A i \in 1..Len(sub) : LowerChar(str[k + i]) = LowerChar(sub[i])

NumericOperators == {">", ">=", "<", "<="}

\* the string does not start with a number: parsing it as a float fails
FailsNumericParsing(str) == str = <<>> \/ ~IsDigit(str[1])

\* a record satisfies a condition: '=' is equality and '~' is containment,
\* both ignoring case; a numeric operator compares the two parsed numbers
Satisfies(row, f) ==
    LET cell == Text(row, f.field) IN
    IF f.op = "=" THEN SameIgnoringCase(cell, f.value)
    ELSE IF f.op = "~" THEN ContainsIgnoringCase(cell, f.value)
    ELSE /\ ~FailsNumericParsing(cell)
         /\ ~FailsNumericParsing(f.value)
         /\ LET a == parseFloat(cell)
                b == parseFloat(f.value)
            IN IF f.op = ">" THEN a > b
               ELSE IF f.op = ">=" THEN a >= b
               ELSE IF f.op = "<" THEN a < b
               ELSE a <= b

\* the positions of the roster whose record satisfies every condition
Kept(data, conds) ==
    {i \in 1..Len(data) : \A k \in 1..Len(conds) : Satisfies(data[i], conds[k])}

\* C17: the filter returns exactly the records that satisfy every condition
\* of the FilterSet, in their original relative order (a subsequence of the
\* roster, nothing reordered or duplicated); an empty FilterSet returns all
\* the records, unchanged.
C17_FilterKeepsMatchingInOrder ==
    derived.by # "none" =>
        LET kept == Kept(students, campaign.filters)
            out == derived.filtered
        IN /\ Len(out) = Cardinality(kept)
           /\ \A j \in 1..Len(out) :
                 \E i \in kept : /\ Cardinality({k \in kept : k < i}) = j - 1
                                 /\ out[j] = students[i]
           /\ campaign.filters = <<>> => out = students

\* of two students the first satisfies the first of two conditions and not
\* the second, and only the second student was returned
C17_Witness ==
    /\ derived.by # "none"
    /\ Len(students) = 2
    /\ Len(campaign.filters) = 2
    /\ Satisfies(students[1], campaign.filters[1])
    /\ ~Satisfies(students[1], campaign.filters[2])
    /\ derived.filtered = <<students[2]>>

\* two different students satisfy the conditions and were returned in the
\* order of the roster
C17_WitnessOrder ==
    /\ derived.by # "none"
    /\ Len(students) = 2
    /\ students[1] # students[2]
    /\ campaign.filters # <<>>
    /\ derived.filtered = students

\* C18: for each numeric operator (>, >=, <, <=), a condition whose value,
\* or whose record cell (a missing cell reads as the empty string), fails
\* numeric parsing never matches: the record is excluded.
C18_ParseFailureNeverMatches ==
    derived.by # "none" =>
        \A i \in 1..Len(students), k \in 1..Len(campaign.filters) :
            LET f == campaign.filters[k] IN
            ( /\ f.op \in NumericOperators
              /\ \/ FailsNumericParsing(Text(students[i], f.field))
                 \/ FailsNumericParsing(f.value) ) =>
                students[i] \notin Range(derived.filtered)

\* a student without the field was excluded by a numeric condition whose
\* value is a number, and another student was returned
C18_Witness ==
    /\ derived.by # "none"
    /\ Len(campaign.filters) = 1
    /\ campaign.filters[1].op \in NumericOperators
    /\ ~FailsNumericParsing(campaign.filters[1].value)
    /\ Len(students) = 2
    /\ campaign.filters[1].field \notin DOMAIN students[1]
    /\ derived.filtered = <<students[2]>>

\* a numeric condition whose value is not a number returned nothing of a
\* roster that holds a numeric cell
C18_WitnessValue ==
    /\ derived.by # "none"
    /\ Len(campaign.filters) = 1
    /\ campaign.filters[1].op \in NumericOperators
    /\ FailsNumericParsing(campaign.filters[1].value)
    /\ \E i \in 1..Len(students) :
          ~FailsNumericParsing(Text(students[i], campaign.filters[1].field))
    /\ derived.filtered = <<>>

\* C19: for an unchanged roster and FilterSet the ids derived by filtering
\* and then deriving the id of each record at its index in the filtered set
\* are the same on every derivation: the studentIds saved at creation equal
\* the queueIds of the execution screen and the ids of the report builders.
C19_DerivedIdsEqualSavedIds ==
    derived.by # "none" =>
        /\ campaign.saved
        /\ derived.ids = campaign.studentIds
        /\ Len(derived.ids) = Len(derived.filtered)

\* the execution screen derived the id of the one student the filter kept,
\* the second of the roster, who has no id field
C19_Witness ==
    /\ derived.by = "execution"
    /\ Len(students) = 2
    /\ derived.filtered = <<students[2]>>
    /\ "id" \notin DOMAIN students[2]
    /\ students[1] # students[2]
    /\ derived.ids = <<String(0)>>

\* a report builder derived two ids, one of them positional
C19_WitnessReport ==
    /\ derived.by \in {"downloadReport", "buildCloudRows"}
    /\ campaign.filters # <<>>
    /\ Len(derived.ids) = 2
    /\ \E i \in 1..2 : "id" \notin DOMAIN derived.filtered[i]

\* C20 (as claimed): within one filtered ordered set distinct records get
\* distinct ids, for every roster in which some records carry an id field
\* (the ids carried being distinct) and the others fall back to their index.
C20_DistinctRecordsDistinctIds ==
    LET out == derived.filtered
        carrying == {i \in 1..Len(out) : "id" \in DOMAIN out[i]}
    IN ( /\ derived.by # "none"
         /\ carrying # {}
         /\ carrying # 1..Len(out)
         /\ \A i, j \in carrying : i # j => out[i].id # out[j].id ) =>
           \A i, j \in 1..Len(out) : i # j => derived.ids[i] # derived.ids[j]

\* C21: deleting a campaign cascades: after the delete flow the campaign is
\* absent from the campaign list and getProgress for its id returns null;
\* deleting when the progress entry or the campaign is already absent
\* completes without error; the other campaigns and their progress are
\* unchanged.
C21_DeleteCascades ==
    [][\A id \in ListedIds : PerformDelete(id) =>
          /\ \A i \in 1..Len(listCampaigns(storage')) : listCampaigns(storage')[i].id # id
          /\ getProgress(storage', id) = Null
          /\ thrown' = NoThrow
          /\ LET before == listCampaigns(storage)
                 others_ == {i \in 1..Len(before) : before[i].id # id}
             IN /\ Len(listCampaigns(storage')) = Cardinality(others_)
                /\ \A j \in 1..Len(listCampaigns(storage')) :
                      \E i \in others_ :
                          /\ Cardinality({k \in others_ : k < i}) = j - 1
                          /\ listCampaigns(storage')[j] = before[i]
          /\ \A c \in ListedIds \ {id} : getProgress(storage', c) = getProgress(storage, c)
      ]_vars

\* c1 was deleted and is gone with its progress, while c2 is listed and has
\* recorded progress
C21_Witness ==
    /\ listCampaigns(storage) = <<ListEntry("c2")>>
    /\ getProgress(storage, "c1") = Null
    /\ getProgress(storage, "c2") # Null
    /\ getProgress(storage, "c2").totals.made > 0

\* a delete on the empty store completed
C21_WitnessAbsent ==
    /\ DOMAIN storage = {listKey}
    /\ storage[listKey] = <<>>

\* C27: the completed flag is never derived: it is false in a fresh snapshot
\* and no store operation changes it, so it is false in every persisted
\* snapshot, even when every contact has been answered.
C27_CompletedNeverSet ==
    \A c \in CampaignIds : Has(c) => Snap(c).completed = FALSE

\* every contact of the campaign has been answered
C27_Witness ==
    \E c \in CampaignIds :
        /\ Has(c)
        /\ DOMAIN Snap(c).contacts = Ids
        /\ \A k \in Ids : Snap(c).contacts[k].outcome = "answered"
        /\ Snap(c).totals.answered = Snap(c).totals.total
        /\ Snap(c).completed = FALSE

\* C30: clearMissedOutcomes unsets the outcome of exactly the contacts whose
\* outcome is 'no_answer'; afterwards totals.missed = 0 and totals.made =
\* totals.answered, totals.total is unchanged, and every contact keeps its
\* attempts, logs, surveyAnswer and surveyLogs.
C30_ClearMissedExact ==
    [][\A c \in CampaignIds : (ClearMissedOutcomes(c) /\ Has(c)) =>
          LET p == Snap(c)
              q == storage'[storageKey(c)]
          IN /\ DOMAIN q.contacts = DOMAIN p.contacts
             /\ \A k \in DOMAIN p.contacts :
                   /\ q.contacts[k].outcome =
                          IF p.contacts[k].outcome = "no_answer" THEN Unset
                          ELSE p.contacts[k].outcome
                   /\ q.contacts[k].attempts = p.contacts[k].attempts
                   /\ q.contacts[k].logs = p.contacts[k].logs
                   /\ q.contacts[k].surveyAnswer = p.contacts[k].surveyAnswer
                   /\ q.contacts[k].surveyLogs = p.contacts[k].surveyLogs
             /\ q.totals.missed = 0
             /\ q.totals.made = q.totals.answered
             /\ q.totals.total = p.totals.total
      ]_vars

\* a missed contact was cleared next to an answered one that kept its outcome:
\* the cleared contact has its attempt and its log entry, and no outcome
C30_Witness ==
    \E c \in CampaignIds :
        /\ Has(c)
        /\ \E k \in DOMAIN Snap(c).contacts :
              /\ Snap(c).contacts[k].outcome = Unset
              /\ Snap(c).contacts[k].attempts = 1
              /\ Len(Snap(c).contacts[k].logs) = 1
              /\ Snap(c).contacts[k].logs[1].outcome = "no_answer"
        /\ \E k \in DOMAIN Snap(c).contacts : Snap(c).contacts[k].outcome = "answered"
        /\ Snap(c).totals.missed = 0
        /\ Snap(c).totals.made = 1

\* the number of double quotes among the first n characters of s
QuotesBefore(s, n) == Cardinality({j \in 1..n : s[j] = Quote})

\* out is s wrapped in double quotes with every double quote of s doubled:
\* the i-th character of s stands after the opening quote and the extra
\* quotes of the characters before it, and a quote is followed by one more
WrappedAndDoubled(s, out) ==
    /\ Len(out) = Len(s) + QuotesBefore(s, Len(s)) + 2
    /\ out[1] = Quote
    /\ out[Len(out)] = Quote
    /\ \A i \in 1..Len(s) :
          LET at == 1 + i + QuotesBefore(s, i - 1) IN
          /\ out[at] = s[i]
          /\ s[i] = Quote => out[at + 1] = Quote

\* C25: CSV escaping: a value that contains a comma, a double quote or a
\* newline is emitted wrapped in double quotes with every internal double
\* quote doubled, any other value unchanged, null / undefined as the empty
\* cell; Smith, "Bob" becomes "Smith, ""Bob"""; csvField and csvEscape
\* apply the same rule.
C25_CsvEscaping ==
    exported.by \in {"csvField", "csvEscape"} =>
        LET v == exported.of
            out == exported.result
        IN /\ ~v.defined => out = <<>>
           /\ (v.defined /\ \E i \in 1..Len(v.text) : v.text[i] \in {Comma, Quote, Newline})
                 => WrappedAndDoubled(v.text, out)
           /\ (v.defined /\ \A i \in 1..Len(v.text) : v.text[i] \notin {Comma, Quote, Newline})
                 => out = v.text
           /\ v = JsString(SmithBob) =>
                 out = <<Quote, "S", "m", "i", "t", "h", Comma, " ", Quote, Quote,
                         "B", "o", "b", Quote, Quote, Quote>>
           /\ out = csvField(v)
           /\ out = csvEscape(v)

\* the summary-report escaper returned the quoted cell of Smith, "Bob"
C25_Witness ==
    /\ exported.by = "csvEscape"
    /\ exported.of = JsString(SmithBob)
    /\ Len(exported.result) = 16

\* the log-CSV escaper returned a cell with a newline and a doubled quote
C25_WitnessField ==
    /\ exported.by = "csvField"
    /\ exported.of = JsString(<<Newline, Quote>>)
    /\ exported.result = <<Quote, Newline, Quote, Quote, Quote>>

\* the contact of a row in the snapshot a report read, as the report sees
\* it: a contact the snapshot does not hold (or no snapshot) has no progress
RowContact(prog, sid) ==
    IF prog # Null /\ sid \in DOMAIN prog.contacts THEN prog.contacts[sid]
    ELSE ZeroContact(sid)

\* the entries of the survey log whose answer is the current surveyAnswer
MatchingEntries(cp) ==
    {j \in 1..Len(cp.surveyLogs) :
        cp.surveyAnswer # Unset /\ cp.surveyLogs[j].answer = cp.surveyAnswer}

\* C22: in the summary report, the Timestamp of each row is the maximum of
\* the contact's lastCalledAt and the timestamp of the latest survey log
\* entry whose answer equals the contact's current surveyAnswer, and is
\* empty when both are absent.
C22_ReportTimestampIsMax ==
    exported.by = "downloadReport" =>
        \A i \in 1..Len(exported.result) :
            LET cp == RowContact(exported.of, exported.result[i].studentId)
                m == MatchingEntries(cp)
                stamps == (IF cp.lastCalledAt # NoTime THEN {cp.lastCalledAt} ELSE {})
                           \cup (IF m # {} THEN {cp.surveyLogs[CHOOSE j \in m : \A k \in m : k <= j].at}
                                 ELSE {})
            IN exported.result[i].timestamp =
                   IF stamps = {} THEN <<>>
                   ELSE toISOString(CHOOSE t \in stamps : \A u \in stamps : u <= t)

\* the contact was called at 2 after it answered Yes at 1: the row carries 2
C22_Witness ==
    /\ exported.by = "downloadReport"
    /\ \E i \in 1..Len(exported.result) :
          LET cp == RowContact(exported.of, exported.result[i].studentId) IN
          /\ cp.lastCalledAt = 2
          /\ cp.surveyLogs = <<[at |-> 1, answer |-> "Yes"]>>
          /\ cp.surveyAnswer = "Yes"
          /\ exported.result[i].timestamp = toISOString(2)

\* the contact answered at 2 after it was called at 1: the row carries 2
C22_WitnessSurveyLater ==
    /\ exported.by = "downloadReport"
    /\ \E i \in 1..Len(exported.result) :
          LET cp == RowContact(exported.of, exported.result[i].studentId) IN
          /\ cp.lastCalledAt = 1
          /\ cp.surveyAnswer # Unset
          /\ exported.result[i].timestamp = toISOString(2)

\* the answer given at 2 was cleared: the row carries the call time 1
C22_WitnessCleared ==
    /\ exported.by = "downloadReport"
    /\ \E i \in 1..Len(exported.result) :
          LET cp == RowContact(exported.of, exported.result[i].studentId) IN
          /\ cp.lastCalledAt = 1
          /\ cp.surveyAnswer = Unset
          /\ cp.surveyLogs # <<>>
          /\ cp.surveyLogs[Len(cp.surveyLogs)].at = 2
          /\ exported.result[i].timestamp = toISOString(1)

\* C23: in a cloud row the timestamp is the at of the last surveyLogs entry
\* whenever the contact has any survey log entry, even if lastCalledAt is
\* later; otherwise lastCalledAt; otherwise empty.
C23_CloudTimestampPrefersSurvey ==
    exported.by = "buildCloudRows" =>
        \A i \in 1..Len(exported.result) :
            LET cp == RowContact(exported.of, exported.result[i].studentId) IN
            exported.result[i].timestamp =
                IF Len(cp.surveyLogs) > 0 THEN toISOString(cp.surveyLogs[Len(cp.surveyLogs)].at)
                ELSE IF cp.lastCalledAt # NoTime THEN toISOString(cp.lastCalledAt)
                ELSE <<>>

\* the contact answered at 1 and was called at 2: the cloud row carries 1
C23_Witness ==
    /\ exported.by = "buildCloudRows"
    /\ \E i \in 1..Len(exported.result) :
          LET cp == RowContact(exported.of, exported.result[i].studentId) IN
          /\ cp.lastCalledAt = 2
          /\ Len(cp.surveyLogs) = 1
          /\ cp.surveyLogs[1].at = 1
          /\ exported.result[i].timestamp = toISOString(1)

\* a contact without survey log: the cloud row carries the call time
C23_WitnessCall ==
    /\ exported.by = "buildCloudRows"
    /\ \E i \in 1..Len(exported.result) :
          LET cp == RowContact(exported.of, exported.result[i].studentId) IN
          /\ cp.lastCalledAt = 2
          /\ cp.surveyLogs = <<>>
          /\ exported.result[i].timestamp = toISOString(2)

\* the number of entries of the history f over all contacts of a snapshot
HistoryEntries(prog, f) ==
    IF prog = Null THEN 0
    ELSE SumOver([k \in DOMAIN prog.contacts |-> Len(prog.contacts[k][f])],
                 DOMAIN prog.contacts)

\* C24 (as claimed): each of the two log CSVs is the fixed header row, then
\* exactly one data row per history entry over all contacts (of logs for the
\* call-outcome CSV, of surveyLogs for the survey CSV), and ends with a
\* newline; with no snapshot it is the header line alone.
C24_OneRowPerHistoryEntry ==
    /\ exported.by = "exportCallOutcomesCSV" =>
          /\ exported.result[1] = OutcomesHeader
          /\ exported.result[Len(exported.result)] = <<>>
          /\ Len(exported.result) - 2 = HistoryEntries(exported.of, "logs")
    /\ exported.by = "exportSurveyCSV" =>
          /\ exported.result[1] = SurveyHeader
          /\ exported.result[Len(exported.result)] = <<>>
          /\ Len(exported.result) - 2 = HistoryEntries(exported.of, "surveyLogs")

\* C26: the summary report and the cloud rows hold exactly one row per
\* filtered contact, in filtered order, whatever the progress: with no
\* snapshot or a contact missing from it, with no resolvable name or no
\* timestamp, the cells are empty strings and the row is there.
C26_OneRowPerFilteredContact ==
    exported.by \in {"downloadReport", "buildCloudRows"} =>
        LET filtered == applyFilters(students, campaign.filters)
            prog == exported.of
        IN /\ Len(exported.result) = Len(filtered)
           /\ \A i \in 1..Len(filtered) :
                 LET row == exported.result[i]
                     sid == getStudentId(filtered[i], i - 1)
                     known == prog # Null /\ sid \in DOMAIN prog.contacts
                 IN /\ row.studentId = sid
                    /\ ~known => row.outcome = "" /\ row.response = "" /\ row.timestamp = <<>>
                    /\ (known /\ prog.contacts[sid].outcome = Unset) => row.outcome = ""
                    /\ (known /\ prog.contacts[sid].surveyAnswer = Unset) => row.response = ""
                    /\ (known /\ prog.contacts[sid].logs = <<>>
                              /\ prog.contacts[sid].surveyLogs = <<>>) => row.timestamp = <<>>
                    /\ DOMAIN filtered[i] \cap {"first_name", "last_name", "FirstName",
                           "LastName", "First Name", "Last Name", "name", "full_name"} = {}
                          => row.fullName = <<>>

\* the summary report has its two rows although no snapshot exists
C26_Witness ==
    /\ exported.by = "downloadReport"
    /\ exported.of = Null
    /\ Len(exported.result) = 2
    /\ \A i \in 1..2 : exported.result[i].timestamp = <<>> /\ exported.result[i].outcome = ""

\* the cloud rows have a row for the second contact, which the snapshot does
\* not hold, after the row of the first, which was called
C26_WitnessMissingContact ==
    /\ exported.by = "buildCloudRows"
    /\ exported.of # Null
    /\ Len(exported.result) = 2
    /\ exported.result[1].outcome = "answered"
    /\ exported.result[2].studentId \notin DOMAIN exported.of.contacts
    /\ exported.result[2].outcome = ""
    /\ exported.result[2].fullName = <<>>

\* the totals of a snapshot count the outcomes of its contacts
TotalsCount(p) ==
    /\ p.totals.made = Cardinality({k \in DOMAIN p.contacts : p.contacts[k].outcome # Unset})
    /\ p.totals.answered =
           Cardinality({k \in DOMAIN p.contacts : p.contacts[k].outcome = "answered"})
    /\ p.totals.missed =
           Cardinality({k \in DOMAIN p.contacts : p.contacts[k].outcome = "no_answer"})
    /\ p.totals.answered + p.totals.missed = p.totals.made

\* a step of one of the reads: getProgress, getSummary, the two log CSV
\* exports, the summary report, the cloud rows
ReadStep ==
    \/ exported'.by = "getProgress" /\ GetProgress(campaign.id)
    \/ GetSummary(campaign.id)
    \/ exported'.by = "exportSurveyCSV" /\ ExportSurveyCSV(campaign.id)
    \/ exported'.by = "exportCallOutcomesCSV" /\ ExportCallOutcomesCSV(campaign.id)
    \/ exported'.by = "downloadReport" /\ DownloadReport
    \/ exported'.by = "buildCloudRows" /\ BuildCloudRows

\* C29: report generation is read-only and never sees a torn snapshot:
\* getProgress, getSummary, the two log CSV exports, the summary report and
\* the cloud-row builder leave the progress store and the campaign
\* unchanged, and the snapshot they read in the middle of a call run
\* satisfies the totals invariant.
C29_ReadsAreReadOnly ==
    [][ReadStep =>
          /\ storage' = storage
          /\ campaign' = campaign
          /\ getProgress(storage, campaign.id) # Null
                => TotalsCount(getProgress(storage, campaign.id))
          /\ exported'.by # exported.by
                => exported'.of = getProgress(storage, campaign.id)
      ]_vars

\* getProgress returned the snapshot of a run in which one contact is
\* answered and one is missed
C29_Witness ==
    /\ exported.by = "getProgress"
    /\ exported.result # Null
    /\ exported.result.totals.answered = 1
    /\ exported.result.totals.missed = 1
    /\ exported.result = getProgress(storage, campaign.id)

\* the call-outcome CSV was exported from a snapshot with two log entries
C29_WitnessExport ==
    /\ exported.by = "exportCallOutcomesCSV"
    /\ Len(exported.result) = 4
    /\ exported.of = getProgress(storage, campaign.id)

\* C28: every mutating store operation performs at most one write, a
\* replacement of the whole snapshot as its last step: while it runs and if
\* it fails (NotInitialized, or the store rejecting the read or the write)
\* the persisted state is exactly as before the call; if it succeeds it has
\* written once and the persisted snapshot equals the snapshot it returns.
C28_OneWriteLast ==
    call.stage # "none" =>
        /\ call.writes <= 1
        /\ call.stage \in {"getItem", "setItem", "thrown"} =>
              call.writes = 0 /\ storage = call.before
        /\ call.stage = "returned" =>
              /\ call.writes = 1
              /\ storage = setItem(call.before, storageKey(call.campaignId), call.p)
              /\ storage[storageKey(call.campaignId)] = call.p

\* recordOutcome on an initialized campaign failed at the write: the store
\* rejected it, and the persisted snapshot is the one from before
C28_Witness ==
    /\ call.stage = "thrown"
    /\ call.op = "recordOutcome"
    /\ call.p # Null
    /\ thrown.error = StoreRejected
    /\ storageKey(call.campaignId) \in DOMAIN storage
    /\ storage[storageKey(call.campaignId)] # call.p

\* recordOutcome returned the snapshot it persisted
C28_WitnessReturned ==
    /\ call.stage = "returned"
    /\ call.op = "recordOutcome"
    /\ call.p.totals.made = 1
    /\ storage[storageKey(call.campaignId)] = call.p

\* loadOrInitProgress on an existing snapshot wrote it back once
C28_WitnessReload ==
    /\ call.stage = "returned"
    /\ call.op = "loadOrInitProgress"
    /\ storageKey(call.campaignId) \in DOMAIN call.before
    /\ call.writes = 1

\* C33: in every snapshot created by loadOrInit and changed only through
\* the store operations, every contact's attempts equals the length of its
\* logs, also after clearMissedOutcomes.
C33_AttemptsEqualLogs ==
    \A c \in CampaignIds : Has(c) =>
        \A k \in DOMAIN Snap(c).contacts :
            Snap(c).contacts[k].attempts = Len(Snap(c).contacts[k].logs)

\* a contact was called twice and its missed outcome was cleared: two
\* attempts, two log entries, no outcome
C33_Witness ==
    \E c \in CampaignIds :
        /\ Has(c)
        /\ \E k \in DOMAIN Snap(c).contacts :
              /\ Snap(c).contacts[k].attempts = 2
              /\ Len(Snap(c).contacts[k].logs) = 2
              /\ Snap(c).contacts[k].outcome = Unset

\* C31 (as claimed): the navigator never reports both passes exhausted while
\* work remains: in every state reached through loadOrInit, recordOutcome
\* and clearMissedOutcomes, if some contact of the queue does not have the
\* outcome 'answered', then pickNextId with the strategy unattempted or
\* with the strategy missed, called without skipId, returns an id.
C31_WorkRemainsIsPicked ==
    \A c \in CampaignIds :
        ( /\ Has(c)
          /\ \E id \in Range(picked.queueIds) :
                ProgressOf(Snap(c), id).outcome # "answered" )
        => \/ pickNextId(picked.queueIds, Snap(c), "unattempted", Unset) # Unset
           \/ pickNextId(picked.queueIds, Snap(c), "missed", Unset) # Unset

\* C34: within a run of the execution screen, recordOutcome,
\* recordSurveyResponse and getSummary are called only after loadOrInit has
\* persisted a snapshot of the campaign: whenever the card of a contact is
\* shown (the outcome buttons and the survey chips) or the summary is shown
\* (getSummary), the snapshot exists, so none of them throws NotInitialized.
C34_CallsAfterInit ==
    \A c \in CampaignIds :
        /\ (CardShown \/ mode = "summary") => Has(c)
        /\ thrown.error # NotInitialized

\* the first card is shown by a screen whose load effect has not run: the
\* snapshot was persisted by advance
C34_Witness ==
    /\ CardShown
    /\ inflight = NoAdvance
    /\ Len(presented) = 1
    /\ \A c \in CampaignIds : Has(c) /\ Entries(Snap(c)) = 0

\* the summary of an empty queue is shown, on a persisted snapshot
C34_WitnessSummary ==
    /\ mode = "summary"
    /\ queueIds = <<>>
    /\ \A c \in CampaignIds : Has(c)

\* C35: whenever no advance is in flight, the presented contact, if any, is
\* a member of queueIds; in the modes summary and idle no contact is
\* presented; in the mode running the strategy is unattempted and the
\* presented contact had no attempts in the snapshot it was selected from;
\* in the mode missed the strategy is missed and the presented contact had
\* the outcome 'no_answer' in that snapshot.
C35_PresentedFitsMode ==
    inflight = NoAdvance =>
        /\ currentId # Unset => currentId \in Range(queueIds)
        /\ mode \in {"summary", "idle"} => currentId = Unset
        /\ mode = "running" =>
              /\ passStrategy = "unattempted"
              /\ currentId # Unset => ProgressOf(progress, currentId).attempts = 0
        /\ mode = "missed" =>
              /\ passStrategy = "missed"
              /\ currentId # Unset => ProgressOf(progress, currentId).outcome = "no_answer"

\* a missed pass presents the second contact of the queue, which was missed
\* in the snapshot advance selected it from
C35_Witness ==
    /\ inflight = NoAdvance
    /\ mode = "missed"
    /\ Len(queueIds) >= 2
    /\ currentId = queueIds[2]
    /\ currentId # queueIds[1]
    /\ progress # Null
    /\ progress.contacts[currentId].outcome = "no_answer"

\* the summary is shown after a pass, with no contact presented
C35_WitnessSummary ==
    /\ inflight = NoAdvance
    /\ mode = "summary"
    /\ currentId = Unset
    /\ presented # <<>>

\* the presentations of an unattempted pass: contacts that had no attempt
\* when the pass began, no more of them than there were, and none at all
\* when there was none
UnattemptedPassBounded ==
    passStart.strategy = "unattempted" =>
        /\ Range(presented) \subseteq passStart.eligible
        /\ Len(presented) <= Cardinality(passStart.eligible)
        /\ (inflight = NoAdvance /\ passStart.eligible = {}) =>
              (mode = "summary" /\ presented = <<>>)
        /\ (inflight = NoAdvance /\ mode = "summary") =>
              Len(presented) = Cardinality(passStart.eligible)

\* C36: an unattempted pass terminates: when the operator records an outcome
\* for each contact presented, the run reaches the summary, after at most as
\* many recordings as the queue had contacts without attempts when the pass
\* began; with an empty queue or no unattempted contact, Begin Calls goes to
\* the summary without presenting anyone.
C36_UnattemptedPassEnds ==
    /\ []UnattemptedPassBounded
    /\ (mode = "running") ~> (mode = "summary")

\* the summary is reached after two recordings, of the two contacts of the
\* queue
C36_Witness ==
    /\ mode = "summary"
    /\ inflight = NoAdvance
    /\ passStart = Pass("unattempted", {"a", "b"})
    /\ Len(presented) = 2
    /\ \A c \in CampaignIds : Has(c) /\ Snap(c).totals.made = 2

\* Begin Calls on an empty queue shows the summary
C36_WitnessEmpty ==
    /\ mode = "summary"
    /\ queueIds = <<>>
    /\ passStart = Pass("unattempted", {})
    /\ presented = <<>>

\* C37: a missed pass terminates: when the operator records an outcome, of
\* either kind, for each contact presented, every missed pass is followed by
\* the summary.
C37_MissedPassEnds == (mode = "missed") ~> (mode = "summary")

\* the contacts of a set, in the order of their first place in a queue
RECURSIVE inQueueOrder(_, _)
inQueueOrder(ids, S) ==
    IF ids = <<>> THEN <<>>
    ELSE IF Head(ids) \in S
         THEN <<Head(ids)>> \o inQueueOrder(Tail(ids), S \ {Head(ids)})
         ELSE inQueueOrder(Tail(ids), S)

\* an unattempted pass presents the contacts that had no attempt when it
\* began, in queue order from the first of them, and all of them by the
\* summary
PresentedInQueueOrder ==
    passStart.strategy = "unattempted" =>
        LET due == inQueueOrder(queueIds, passStart.eligible) IN
        /\ IsPrefix(presented, due)
        /\ (inflight = NoAdvance /\ mode = "running") =>
              (presented # <<>> /\ currentId = presented[Len(presented)])
        /\ (inflight = NoAdvance /\ mode = "summary") => presented = due

\* the steps of entering a run: the screen opened again, its load effect,
\* Begin Calls and the advance it awaits
Entering ==
    \E c \in CampaignIds :
        \/ Reenter(c)
        \/ Mount(c)
        \/ BeginCalls(c)
        \/ (inflight.strategy = "unattempted" /\ presented = <<>> /\ AdvanceDone(c))

\* C32: progress is resumable: when a run is left at any point and a new run
\* is begun on the same campaign and queue, the unattempted pass presents
\* exactly the queue contacts that have no recorded attempt, in queue order,
\* starting with the first of them; no contact with a recorded outcome is
\* presented again by the unattempted strategy, and entering again resets no
\* recorded outcome, attempt count or log entry.
C32_Resumable ==
    /\ []PresentedInQueueOrder
    /\ [](\A c \in CampaignIds :
            (passStrategy = "unattempted" /\ CardShown /\ inflight = NoAdvance) =>
                /\ Has(c)
                /\ ProgressOf(Snap(c), currentId).outcome = Unset
                /\ ProgressOf(Snap(c), currentId).attempts = 0)
    /\ [][Entering =>
            \A c \in CampaignIds : Has(c) =>
                /\ Has(c)'
                /\ \A k \in DOMAIN Snap(c).contacts :
                      /\ k \in DOMAIN Snap(c)'.contacts
                      /\ Snap(c)'.contacts[k] = Snap(c).contacts[k]]_vars

\* a run resumed: the store holds an outcome for a, the first of the queue,
\* recorded by the run that was left, and the new run presents b first
C32_Witness ==
    /\ queueIds = <<"a", "b">>
    /\ mode = "running"
    /\ inflight = NoAdvance
    /\ passStart = Pass("unattempted", {"b"})
    /\ presented = <<"b">>
    /\ currentId = "b"
    /\ \A c \in CampaignIds :
          /\ Has(c)
          /\ Snap(c).contacts["a"].outcome = "no_answer"
          /\ Snap(c).contacts["a"].attempts = 1
          /\ Len(Snap(c).contacts["a"].logs) = 1

\* the entry a handler appended is in the persisted snapshot
SurveyEntryKept(c) ==
    LET h == call.survey
        kept == ProgressOf(Snap(c), h.contactId) IN
    /\ kept.surveyAnswer = h.arg
    /\ \E i \in DOMAIN kept.surveyLogs : kept.surveyLogs[i].answer = h.arg

OutcomeEntryKept(c) ==
    LET h == call.outcome
        kept == ProgressOf(Snap(c), h.contactId) IN
    /\ kept.attempts >= 1
    /\ kept.outcome = h.arg
    /\ \E i \in DOMAIN kept.logs : kept.logs[i].outcome = h.arg

\* C38: no recorded entry is lost when handlers overlap: when a survey
\* selection (recordSurveyResponse) and an outcome recording (recordOutcome,
\* then the loadOrInitProgress of advance) on one campaign were in flight at
\* once, their reads and whole-snapshot writes interleaved in any order,
\* then once both have completed the persisted snapshot holds the appended
\* SurveyLogEntry with its answer and the appended CallLogEntry with its
\* outcome and attempt count.
C38_NoEntryLost ==
    \A c \in CampaignIds :
        ( /\ call.stage = "handlers"
          /\ call.overlapped
          /\ call.survey.stage = "done"
          /\ call.outcome.stage = "done" )
        => /\ Has(c)
           /\ SurveyEntryKept(c)
           /\ OutcomeEntryKept(c)

\* handlers that did not overlap lose nothing
SerialHandlersKeepBoth ==
    \A c \in CampaignIds :
        ( /\ call.stage = "handlers"
          /\ ~call.overlapped
          /\ call.survey.stage = "done"
          /\ call.outcome.stage = "done" )
        => /\ Has(c)
           /\ SurveyEntryKept(c)
           /\ OutcomeEntryKept(c)

====
